---- MODULE Spec2Model ----
(***************************************************************************)
(* Identity resolution and access scoping of the school-management REST    *)
(* backend: the middleware chain requireAuth -> getUserProfile ->          *)
(* requireRole -> route handler, over a fixed relational data set.         *)
(*                                                                         *)
(* The repository carries three versions of middleware/auth:               *)
(*   "jwt"          src/src/middleware/auth.ts lines 1-173                 *)
(*   "jwtNoProfile" src/src/middleware/auth.ts lines 175-269               *)
(*   "clerk"        src/unnamed/part_002                                   *)
(* Every route imports '../middleware/auth'; which version is deployed is  *)
(* a property of the deployment, chosen in Init (variable mw).             *)
(***************************************************************************)
EXTENDS Integers, Sequences, FiniteSets, TLC

\* JavaScript undefined / null / absent query parameter
None == "none"

Roles == {"student", "teacher", "parent", "admin", "accountant"}

\* ------------------------------------------------------------------------
\* Persistence: the tables the handlers query (Prisma models)
\* ------------------------------------------------------------------------

\* Student: internal id (the provider-issued id), username, the
\* human-readable StudentId, and the parent reference
StudentTable ==
  { [id |-> "S1", username |-> "u_s1", StudentId |-> "STU1", parentId |-> "P1"],
    [id |-> "S2", username |-> "u_s2", StudentId |-> "STU2", parentId |-> "P1"],
    [id |-> "S3", username |-> "u_s3", StudentId |-> "STU3", parentId |-> "P2"],
    [id |-> "S4", username |-> "u_s4", StudentId |-> "STU4", parentId |-> "P2"],
    [id |-> "X1", username |-> "u_x1s", StudentId |-> "STUX", parentId |-> None] }

TeacherTable ==
  { [id |-> "T1", username |-> "u_t1"],
    [id |-> "T2", username |-> "u_t2"],
    [id |-> "X1", username |-> "u_x1t"] }

ParentTable ==
  { [id |-> "P1", username |-> "u_p1"],
    [id |-> "P2", username |-> "u_p2"] }

AdminTable == { [id |-> "A1", username |-> "u_a1"] }

AccountantTable == { [id |-> "AC1", username |-> "u_ac1"] }

\* Class: exactly one supervising teacher
ClassTable ==
  { [id |-> 1, supervisorId |-> "T1"],
    [id |-> 2, supervisorId |-> "T2"],
    [id |-> 3, supervisorId |-> "T2"] }

\* Lesson: a teacher teaching a class
LessonTable ==
  { [id |-> 1, classId |-> 1, teacherId |-> "T1"],
    [id |-> 2, classId |-> 2, teacherId |-> "T1"],
    [id |-> 3, classId |-> 3, teacherId |-> "T2"] }

\* Enrollment.studentId holds the student's human-readable StudentId
EnrollmentTable ==
  { [studentId |-> "STU1", classId |-> 1, leftAt |-> None],
    [studentId |-> "STU2", classId |-> 1, leftAt |-> None],
    [studentId |-> "STU3", classId |-> 2, leftAt |-> None],
    [studentId |-> "STU4", classId |-> 3, leftAt |-> None] }

\* Fee.studentId, Attendance.studentId and Result.studentId hold Student.id
FeeTable ==
  { [id |-> "F1", studentId |-> "S1", status |-> "PARTIAL",
     paidAmount |-> 1, totalAmount |-> 3],
    [id |-> "F2", studentId |-> "S2", status |-> "PAID",
     paidAmount |-> 3, totalAmount |-> 3],
    [id |-> "F3", studentId |-> "S3", status |-> "UNPAID",
     paidAmount |-> 0, totalAmount |-> 2],
    [id |-> "F4", studentId |-> "S4", status |-> "UNPAID",
     paidAmount |-> 0, totalAmount |-> 2] }

FeeIds == { f.id : f \in FeeTable }

\* Notification: addressed to one student, teacher or parent, to every
\* user of a role (targetRole), or to a class (relatedClassId, 0 for none)
NotificationTable ==
  { [id |-> "N1", studentId |-> "S1", teacherId |-> None, parentId |-> None,
     targetRole |-> None, relatedClassId |-> 0, isRead |-> FALSE],
    [id |-> "N2", studentId |-> "S3", teacherId |-> None, parentId |-> None,
     targetRole |-> None, relatedClassId |-> 0, isRead |-> FALSE],
    [id |-> "N3", studentId |-> None, teacherId |-> None, parentId |-> None,
     targetRole |-> "student", relatedClassId |-> 0, isRead |-> FALSE],
    [id |-> "N4", studentId |-> None, teacherId |-> None, parentId |-> None,
     targetRole |-> None, relatedClassId |-> 1, isRead |-> FALSE] }

NotificationIds == { n.id : n \in NotificationTable }

AttendanceTable ==
  { [studentId |-> "S1", classId |-> 1],
    [studentId |-> "S2", classId |-> 1],
    [studentId |-> "S3", classId |-> 2],
    [studentId |-> "S4", classId |-> 3] }

ResultTable ==
  { [id |-> 1, studentId |-> "S1"],
    [id |-> 2, studentId |-> "S2"],
    [id |-> 3, studentId |-> "S3"],
    [id |-> 4, studentId |-> "S4"] }

AllStudentIds == { s.id : s \in StudentTable }

\* ------------------------------------------------------------------------
\* Identity provider (Clerk): users with e-mail and publicMetadata.role
\* ------------------------------------------------------------------------
ClerkUsers ==
  { [id |-> "S1",  email |-> "s1@x",  role |-> "student"],
    [id |-> "S2",  email |-> "s2@x",  role |-> "student"],
    [id |-> "T1",  email |-> "t1@x",  role |-> "teacher"],
    [id |-> "T2",  email |-> "t2@x",  role |-> "teacher"],
    [id |-> "P1",  email |-> "p1@x",  role |-> "parent"],
    [id |-> "A1",  email |-> "a1@x",  role |-> "admin"],
    [id |-> "AC1", email |-> "ac1@x", role |-> "accountant"],
    [id |-> "X1",  email |-> "x1@x",  role |-> "teacher"],
    [id |-> "E2",  email |-> "e2@x",  role |-> None],
    [id |-> "E3",  email |-> "e3@x",  role |-> "principal"],
    [id |-> "H1",  email |-> "h1@x",  role |-> "Parent"],
    [id |-> "H2",  email |-> "h2@x",  role |-> "student"] }

ClerkIds == { u.id : u \in ClerkUsers }

ClerkUser(id) == CHOOSE u \in ClerkUsers : u.id = id

\* String.prototype.toLowerCase on the role strings that occur
toLowerCase(s) ==
  CASE s = "Parent" -> "parent"
    [] OTHER -> s


\* ------------------------------------------------------------------------
\* Credentials
\* ------------------------------------------------------------------------

\* A token: kind "jwt" is signed with JWT_SECRET and unexpired, kind "clerk"
\* is a session token the identity provider accepts, kind "bad" is anything
\* else (garbage, expired, wrong signature)
NoToken == [kind |-> None, userId |-> None, role |-> None, email |-> None]

BadToken == [kind |-> "bad", userId |-> None, role |-> None, email |-> None]

\* POST /login steps 3-4: the payload signed for a provider user; the
\* role is publicMetadata.role, or 'student' when the metadata has none
loginRole(u) == IF u.role = None THEN "student" ELSE u.role

jwtPayload(u) ==
  [kind |-> "jwt", userId |-> u.id, role |-> loginRole(u), email |-> u.email]

\* The tokens jwt.verify accepts are the ones POST /login signed
JwtTokens == { jwtPayload(u) : u \in ClerkUsers }

\* The provider's own tokens carry the subject only
ClerkTokens ==
  { [kind |-> "clerk", userId |-> id, role |-> None, email |-> None] : id \in ClerkIds }

Tokens == JwtTokens \cup ClerkTokens \cup {BadToken}

\* The Authorization header: absent, "Bearer <token>", or the token alone
\* without the scheme prefix
NoHeader == [scheme |-> "absent", token |-> NoToken]

Headers ==
  {NoHeader} \cup [scheme : {"Bearer", "raw"}, token : Tokens]

\* jwt.verify(token, JWT_SECRET): the decoded payload, or a throw
jwtVerifies(t) == t.kind = "jwt"

\* The provider accepts the token and names its subject
clerkVerifies(t) == t.kind = "clerk"

\* What the provider call can answer for a token: the user, or no user /
\* a throw when it does not accept the token; "down" is the throw of a
\* provider that cannot be reached, whatever the token
ProviderOutcomes(t) ==
  (IF clerkVerifies(t) THEN {"user"} ELSE {"null", "throw"}) \cup {"down"}

\* What verifyToken of part_002 can answer for a token: the provider's
\* outcomes, and for a token it does not accept also the throw whose reason
\* is token-expired
VerifyTokenOutcomes(t) ==
  ProviderOutcomes(t) \cup (IF clerkVerifies(t) THEN {} ELSE {"expired"})

\* Result of an authentication middleware: next() was called (status 0)
\* or a response was sent; trace lists the verifications attempted in order
AuthResult(status, error, uid, role, email, trace) ==
  [status |-> status, error |-> error, userId |-> uid, userRole |-> role,
   userEmail |-> email, trace |-> trace]

\* requireAuth as it would be if the provider were consulted for every
\* bearer token, also after a successful local verification
requireAuthJwt_ProviderAlways(h, prov) ==
  IF h.scheme # "Bearer"
  THEN AuthResult(401, "Authorization header required", None, None, None, <<>>)
  ELSE IF jwtVerifies(h.token)
       THEN AuthResult(0, None, h.token.userId, h.token.role, h.token.email,
                       <<"local", "provider">>)
       ELSE IF prov = "user"
            THEN AuthResult(0, None, h.token.userId, None, None,
                            <<"local", "provider">>)
            ELSE IF prov = "null"
                 THEN AuthResult(401, "Invalid token", None, None, None,
                                 <<"local", "provider">>)
                 ELSE AuthResult(401, "Invalid authentication token", None, None,
                                 None, <<"local", "provider">>)

\* requireAuth as it would be if the local path took only the subject from
\* the decoded payload, as the provider path does
requireAuthJwt_SubjectOnly(h, prov) ==
  IF h.scheme # "Bearer"
  THEN AuthResult(401, "Authorization header required", None, None, None, <<>>)
  ELSE IF jwtVerifies(h.token)
       THEN AuthResult(0, None, h.token.userId, None, None, <<"local">>)
       ELSE IF prov = "user"
            THEN AuthResult(0, None, h.token.userId, None, None,
                            <<"local", "provider">>)
            ELSE IF prov = "null"
                 THEN AuthResult(401, "Invalid token", None, None, None,
                                 <<"local", "provider">>)
                 ELSE AuthResult(401, "Invalid authentication token", None, None,
                                 None, <<"local", "provider">>)

\* requireAuth of middleware/auth.ts (both copies are the same code):
\* prov is the provider's answer, used only if the provider is reached
requireAuthJwt(h, prov) ==
  IF h.scheme # "Bearer"
  THEN AuthResult(401, "Authorization header required", None, None, None, <<>>)
  ELSE IF jwtVerifies(h.token)
       THEN AuthResult(0, None, h.token.userId, h.token.role, h.token.email,
                       <<"local">>)
       ELSE IF prov = "user"
            THEN AuthResult(0, None, h.token.userId, None, None,
                            <<"local", "provider">>)
            ELSE IF prov = "null"
                 THEN AuthResult(401, "Invalid token", None, None, None,
                                 <<"local", "provider">>)
                 ELSE AuthResult(401, "Invalid authentication token", None, None,
                                 None, <<"local", "provider">>)

\* requireAuth of part_002: getAuth(req), then verifyToken on the header
\* with 'Bearer ' replaced by '' (a header without the prefix is taken whole).
\* getAuthUser is getAuth's userId (None when it throws or finds none);
\* prov is verifyToken's answer: "user", a throw with reason token-expired
\* ("expired"), a throw with reason token-invalid ("null"), or a throw with
\* another reason ("throw", "down"), which falls through to the final check
requireAuthClerk(h, getAuthUser, prov) ==
  IF getAuthUser # None
  THEN AuthResult(0, None, getAuthUser, None, None, <<"provider">>)
  ELSE IF h.scheme = "absent"
       THEN AuthResult(401, "Authentication required", None, None, None,
                       <<"provider">>)
       ELSE IF prov = "user"
            THEN AuthResult(0, None, h.token.userId, None, None,
                            <<"provider", "provider">>)
            ELSE IF prov = "expired"
                 THEN AuthResult(401, "Token expired. Please sign in again.", None,
                                 None, None, <<"provider", "provider">>)
                 ELSE IF prov = "null"
                      THEN AuthResult(401, "Invalid token. Please sign in again.",
                                      None, None, None, <<"provider", "provider">>)
                      ELSE AuthResult(401, "Authentication required", None, None,
                                      None, <<"provider", "provider">>)

\* getAuth(req) in part_002 reads what a provider middleware left on the
\* request: nothing (it throws or finds no user), or the subject of a
\* bearer session token
GetAuthUsers(h) ==
  {None} \cup (IF h.scheme = "Bearer" /\ clerkVerifies(h.token)
               THEN {h.token.userId} ELSE {})


\* ------------------------------------------------------------------------
\* Profile resolution
\* ------------------------------------------------------------------------

\* req.userProfile: the table the record came from, its id, username and
\* (students) StudentId; synthesized marks the temporary object built from
\* the provider's data
NoProfile ==
  [table |-> None, id |-> None, username |-> None, StudentId |-> None,
   synthesized |-> FALSE]

ProfileOf(role, r) ==
  [table |-> role, id |-> r.id, username |-> r.username,
   StudentId |-> IF role = "student" THEN r.StudentId ELSE None,
   synthesized |-> FALSE]

TableOf(role) ==
  CASE role = "student" -> StudentTable
    [] role = "teacher" -> TeacherTable
    [] role = "parent" -> ParentTable
    [] role = "admin" -> AdminTable
    [] role = "accountant" -> AccountantTable
    [] OTHER -> {}

\* prisma.<role>.findFirst({ where: { id } }): the matching records
findById(role, id) == { r \in TableOf(role) : r.id = id }

\* Result of getUserProfile: next() was called (status 0) with the role and
\* profile now on the request, or a response was sent
ProfileResult(status, error, role, profile) ==
  [status |-> status, error |-> error, userRole |-> role, userProfile |-> profile]

\* getUserProfile of middleware/auth.ts lines 80-160: the role comes from
\* the request, the profile from that role's table by id or by
\* username = e-mail; findFirst may return any of the matching records
getUserProfileJwt(uid, role, email) ==
  IF uid = None \/ role = None
  THEN { ProfileResult(401, "User authentication required", role, NoProfile) }
  ELSE IF role \notin {"student", "teacher", "parent", "admin"}
       THEN { ProfileResult(400, "Invalid user role", role, NoProfile) }
       ELSE LET found == { r \in TableOf(role) : r.id = uid \/ r.username = email }
            IN IF found = {}
               THEN { ProfileResult(404, "User profile not found", role, NoProfile) }
               ELSE { ProfileResult(0, None, role, ProfileOf(role, r)) : r \in found }

\* getUserProfile of middleware/auth.ts lines 252-256: calls next()
getUserProfileNoop(uid, role, email) ==
  { ProfileResult(0, None, role, NoProfile) }

\* The first collection, in the order of the if-chain, holding the id
firstMatch(uid) ==
  IF findById("student", uid) # {} THEN "student"
  ELSE IF findById("teacher", uid) # {} THEN "teacher"
  ELSE IF findById("parent", uid) # {} THEN "parent"
  ELSE IF findById("admin", uid) # {} THEN "admin"
  ELSE IF findById("accountant", uid) # {} THEN "accountant"
  ELSE None

\* The temporary profile built from the provider's user: a student gets
\* the provider id as id, the other roles get no id field
temporaryProfile(uid, publicRole) ==
  [table |-> None, id |-> IF publicRole = "student" THEN uid ELSE None,
   username |-> uid, StudentId |-> None, synthesized |-> TRUE]

\* getUserProfile of part_002: five lookups by id, first match wins; with
\* no match the provider's publicMetadata.role is used; clerk is "ok" or
\* "throw" (clerkClient.users.getUser fails)
getUserProfileClerk(uid, clerk) ==
  IF uid = None
  THEN ProfileResult(401, "User ID not found", None, NoProfile)
  ELSE IF firstMatch(uid) # None
       THEN ProfileResult(0, None, firstMatch(uid),
                          ProfileOf(firstMatch(uid),
                                    CHOOSE r \in findById(firstMatch(uid), uid) : TRUE))
       ELSE IF clerk = "throw" \/ uid \notin ClerkIds
            THEN ProfileResult(500,
                   "Failed to verify user account. Please contact administrator.",
                   None, NoProfile)
            ELSE LET publicRole == toLowerCase(ClerkUser(uid).role)
                 IN IF publicRole \in Roles
                    THEN ProfileResult(0, None, publicRole,
                                       temporaryProfile(uid, publicRole))
                    ELSE ProfileResult(404,
                           "User not found in database. Please contact administrator to add your account.",
                           None, NoProfile)

\* The catch block around getUserProfile (part_002 lines 218-224,
\* middleware/auth.ts lines 153-159): a query that throws is answered 500
getUserProfileCatch ==
  ProfileResult(500, "Failed to get user profile", None, NoProfile)

\* requireRole(allowedRoles): TRUE when next() is called
requireRole(allowedRoles, role) ==
  role # None /\ role \in allowedRoles


\* ------------------------------------------------------------------------
\* Queries (Prisma): a filter value of undefined is left out of the where
\* ------------------------------------------------------------------------

\* prisma.student.findMany({ where: { parentId } }), mapped to ids
childrenOf(parentId) ==
  { s.id : s \in { t \in StudentTable : parentId = None \/ t.parentId = parentId } }

\* prisma.class.findMany({ where: { supervisorId } })
supervisedClasses(teacherId) ==
  { c \in ClassTable : teacherId = None \/ c.supervisorId = teacherId }

\* class.students: the enrollments of a class
enrollmentsOf(classId) == { e \in EnrollmentTable : e.classId = classId }

\* teacherClasses.flatMap(cls => cls.students.map(e => e.studentId))
supervisedEnrollmentStudentIds(teacherId) ==
  { e.studentId : e \in UNION { enrollmentsOf(c.id) : c \in supervisedClasses(teacherId) } }

\* teacherClasses.flatMap(cls => cls.students.map(e => e.student?.id)):
\* the enrollment's student relation joins on Student.StudentId
supervisedStudentRecordIds(teacherId) ==
  { s.id : s \in { t \in StudentTable :
                     t.StudentId \in supervisedEnrollmentStudentIds(teacherId) } }

\* prisma.class.findMany({ where: { OR: [{ supervisorId },
\*                                       { lessons: { some: { teacherId } } }] } })
supervisedOrTaughtClassIds(teacherId) ==
  { c.id : c \in { k \in ClassTable :
                     \/ teacherId = None
                     \/ k.supervisorId = teacherId
                     \/ \E l \in LessonTable : l.classId = k.id /\ l.teacherId = teacherId } }

\* The student ids of the rows a findMany({ where: { studentId: { in } } })
\* returns from a table
rowsFor(table, ids) == { r.studentId : r \in { t \in table : t.studentId \in ids } }

\* ------------------------------------------------------------------------
\* Route handlers.  A handler's result: the HTTP status, the error text,
\* targetStudentIds as a set (scope), the ids of the where clause of the
\* data query (query; empty when no data query ran) and the student ids
\* whose records are in the response (data)
\* Requests carry no date, class or limit filter: those only narrow the
\* rows of the same where clause.
\* ------------------------------------------------------------------------
HandlerResult(status, error, scope, query, data) ==
  [status |-> status, error |-> error, scope |-> scope, query |-> query,
   data |-> data]

Failure(status, error) == HandlerResult(status, error, {}, {}, {})

\* userProfile.id on an undefined userProfile throws a TypeError, which the
\* handler's catch turns into a 500
derefThrows(role, profile, derefRoles) ==
  profile = NoProfile /\ role \in derefRoles

\* GET /api/fees/history and /pending: targetStudentIds
feesScope(role, profile, studentId) ==
  CASE role = "student" -> {profile.id}
    [] role = "parent" -> childrenOf(profile.id)
    [] role \in {"admin", "accountant"} ->
         IF studentId # None THEN {studentId} ELSE AllStudentIds
    [] OTHER -> {}

\* GET /api/fees/history
feesHistory(role, profile, studentId) ==
  IF derefThrows(role, profile, {"student", "parent"})
  THEN Failure(500, "Failed to get fee history")
  ELSE LET targetStudentIds == feesScope(role, profile, studentId)
           query == IF studentId # None THEN {studentId} ELSE targetStudentIds
       IN IF targetStudentIds = {}
          THEN HandlerResult(200, None, {}, {}, {})
          ELSE HandlerResult(200, None, targetStudentIds, query,
                             rowsFor(FeeTable, query))

\* GET /api/fees/pending
feesPending(role, profile, studentId) ==
  IF derefThrows(role, profile, {"student", "parent"})
  THEN Failure(500, "Failed to get pending fees")
  ELSE LET targetStudentIds == feesScope(role, profile, studentId)
           query == IF studentId # None THEN {studentId} ELSE targetStudentIds
       IN IF targetStudentIds = {}
          THEN HandlerResult(200, None, {}, {}, {})
          ELSE HandlerResult(200, None, targetStudentIds, query,
                 rowsFor({ f \in FeeTable : f.status \in {"UNPAID", "PARTIAL"} }, query))

\* GET /api/attendance/summary: targetStudentIds (no studentId parameter)
attendanceSummaryScope(role, profile) ==
  CASE role = "student" -> {profile.id}
    [] role = "parent" -> childrenOf(profile.id)
    [] role = "teacher" -> supervisedEnrollmentStudentIds(profile.id)
    [] role = "admin" -> AllStudentIds
    [] OTHER -> {}

\* GET /api/attendance/summary
attendanceSummary(role, profile) ==
  IF derefThrows(role, profile, {"student", "parent", "teacher"})
  THEN Failure(500, "Failed to get attendance summary")
  ELSE LET targetStudentIds == attendanceSummaryScope(role, profile)
       IN IF targetStudentIds = {}
          THEN HandlerResult(200, None, {}, {}, {})
          ELSE HandlerResult(200, None, targetStudentIds, targetStudentIds,
                             rowsFor(AttendanceTable, targetStudentIds))

\* GET /api/attendance/report: targetStudentIds
attendanceReportScope(role, profile, studentId) ==
  CASE role = "student" -> {profile.id}
    [] role = "parent" -> childrenOf(profile.id)
    [] role = "teacher" -> supervisedEnrollmentStudentIds(profile.id)
    [] role = "admin" ->
         IF studentId # None THEN {studentId} ELSE AllStudentIds
    [] OTHER -> {}

\* GET /api/attendance/report
attendanceReport(role, profile, studentId) ==
  IF derefThrows(role, profile, {"student", "parent", "teacher"})
  THEN Failure(500, "Failed to get attendance report")
  ELSE LET targetStudentIds == attendanceReportScope(role, profile, studentId)
           query == IF studentId # None THEN {studentId} ELSE targetStudentIds
       IN IF targetStudentIds = {}
          THEN HandlerResult(200, None, {}, {}, {})
          ELSE HandlerResult(200, None, targetStudentIds, query,
                             rowsFor(AttendanceTable, query))

\* GET /api/exams/results: targetStudentIds
examResultsScope(role, profile, studentId) ==
  CASE role = "student" -> {profile.id}
    [] role = "parent" -> childrenOf(profile.id)
    [] role = "teacher" -> supervisedStudentRecordIds(profile.id)
    [] role = "admin" ->
         IF studentId # None THEN {studentId} ELSE AllStudentIds
    [] OTHER -> {}

\* GET /api/exams/results
examResults(role, profile, studentId) ==
  IF derefThrows(role, profile, {"student", "parent", "teacher"})
  THEN Failure(500, "Failed to get exam results")
  ELSE LET targetStudentIds == examResultsScope(role, profile, studentId)
           query == IF studentId # None THEN {studentId} ELSE targetStudentIds
       IN IF targetStudentIds = {}
          THEN HandlerResult(200, None, {}, {}, {})
          ELSE HandlerResult(200, None, targetStudentIds, query,
                             rowsFor(ResultTable, query))

\* GET /api/exams/report-card: the one targetStudentId, then the student
\* record (404 when there is none) and the student's results
reportCardFor(targetStudentId) ==
  IF targetStudentId \notin AllStudentIds
  THEN Failure(404, "Student not found")
  ELSE HandlerResult(200, None, {targetStudentId}, {targetStudentId},
                     rowsFor(ResultTable, {targetStudentId}))

reportCard(role, profile, studentId) ==
  IF derefThrows(role, profile, {"student", "parent"} \ (IF studentId = None THEN {"parent"} ELSE {}))
  THEN Failure(500, "Failed to get report card")
  ELSE CASE role = "student" -> reportCardFor(profile.id)
         [] role = "parent" ->
              IF studentId = None
              THEN Failure(400, "Student ID is required for parents")
              ELSE IF studentId \in AllStudentIds /\ studentId \in childrenOf(profile.id)
                   THEN reportCardFor(studentId)
                   ELSE Failure(403, "Access denied to this student")
         [] role \in {"admin", "teacher"} ->
              IF studentId = None
              THEN Failure(400, "Student ID is required")
              ELSE reportCardFor(studentId)
         [] OTHER -> Failure(403, "Access denied")

\* GET /api/attendance/classes (requireAuth, getUserProfile, no requireRole;
\* "for teachers and admins"): the classes a teacher supervises, or all
\* classes for an admin, each with its enrolled students; no query runs for
\* any other role.  query holds the supervisors the classes were selected by
attendanceClasses(role, profile) ==
  IF derefThrows(role, profile, {"teacher"})
  THEN Failure(500, "Failed to get classes")
  ELSE LET classes == CASE role = "teacher" -> supervisedClasses(profile.id)
                        [] role = "admin" -> ClassTable
                        [] OTHER -> {}
           enrolled == { e.studentId : e \in UNION { enrollmentsOf(c.id) : c \in classes } }
       IN HandlerResult(200, None, {}, { c.supervisorId : c \in classes },
                        { s.id : s \in { t \in StudentTable : t.StudentId \in enrolled } })

\* Exam: the class it is set for (every exam of the table is still to come)
ExamTable ==
  { [id |-> "E1", classId |-> 1],
    [id |-> "E2", classId |-> 2],
    [id |-> "E3", classId |-> 3] }

\* parseInt of a decimal query string
parseInt(s) ==
  CASE s = "1" -> 1
    [] s = "2" -> 2
    [] s = "3" -> 3
    [] s = "9" -> 9

\* findFirst found no enrollment
NoEnrollment == [studentId |-> None, classId |-> 0, leftAt |-> None]

\* prisma.enrollment.findFirst({ where: { studentId: StudentId, leftAt: null } }):
\* the records it can return
currentEnrollments(StudentId) ==
  LET found == { e \in EnrollmentTable :
                   e.leftAt = None /\ (StudentId = None \/ e.studentId = StudentId) }
  IN IF found = {} THEN {NoEnrollment} ELSE found

\* GET /api/exams/upcoming: targetClassIds; enrollment is the record the
\* student branch's findFirst returned
upcomingClassIds(role, profile, classId, enrollment) ==
  CASE role = "student" -> IF enrollment = NoEnrollment THEN {} ELSE {enrollment.classId}
    [] role = "parent" ->
         { e.classId : e \in { k \in EnrollmentTable :
             /\ k.leftAt = None
             /\ \E s \in StudentTable :
                  s.id \in childrenOf(profile.id) /\ s.StudentId = k.studentId } }
    [] role = "teacher" -> { c.id : c \in supervisedClasses(profile.id) }
    [] role = "admin" ->
         IF classId # None THEN {parseInt(classId)} ELSE { c.id : c \in ClassTable }
    [] OTHER -> {}

\* GET /api/exams/upcoming: scope is targetClassIds, query the class ids of
\* the exam query's where clause, data the classes of the exams returned
examsUpcoming(role, profile, classId, enrollment) ==
  IF derefThrows(role, profile, {"student", "parent", "teacher"})
  THEN Failure(500, "Failed to get upcoming exams")
  ELSE LET targetClassIds == upcomingClassIds(role, profile, classId, enrollment)
           query == IF classId # None THEN {parseInt(classId)} ELSE targetClassIds
       IN IF targetClassIds = {}
          THEN HandlerResult(200, None, {}, {}, {})
          ELSE HandlerResult(200, None, targetClassIds, query,
                 { x.classId : x \in { k \in ExamTable : k.classId \in query } })

\* GET /api/parents/children/attendance (behind requireRole(['parent']))
childrenAttendance(role, profile, childId) ==
  IF profile = NoProfile
  THEN Failure(500, "Failed to get attendance records")
  ELSE LET children == childrenOf(profile.id)
           query == IF childId # None THEN {childId} ELSE children
       IN IF children = {}
          THEN HandlerResult(200, None, {}, {}, {})
          ELSE HandlerResult(200, None, children, query,
                             rowsFor(AttendanceTable, query))

\* GET /api/teachers/attendance (behind requireRole(['teacher'])): the
\* rows are selected by class id; no targetStudentIds is computed
teacherAttendance(role, profile) ==
  IF profile = NoProfile
  THEN Failure(500, "Failed to get attendance records")
  ELSE LET classIds == supervisedOrTaughtClassIds(profile.id)
           rows == { a \in AttendanceTable : a.classId \in classIds }
       IN HandlerResult(200, None, {}, {}, { a.studentId : a \in rows })


\* POST /api/auth/login: e-mail and password are checked at the provider
\* (every user's password is "right")
LoginResult(status, error, token) ==
  [status |-> status, error |-> error, token |-> token,
   role |-> token.role]

\* What clerkClient.users.getUserList can do: answer with the users of the
\* e-mail ("ok"), throw an error whose first code is user_not_found, or
\* throw any other error ("throw")
GetUserListOutcomes == {"ok", "user_not_found", "throw"}

\* What clerkClient.users.verifyPassword can do: resolve for the right
\* password and throw for a wrong one ("ok"), or throw whatever the
\* password is ("throw", a provider that fails)
VerifyPasswordOutcomes == {"ok", "throw"}

\* POST /login as it would be if an unknown e-mail were reported as such
login_UnknownUserReported(email, password, getUserList, verifyPassword) ==
  IF email = None \/ password = None
  THEN LoginResult(400, "Email and password are required", NoToken)
  ELSE IF getUserList = "throw"
       THEN LoginResult(500, "Login failed", NoToken)
       ELSE IF getUserList = "user_not_found"
            THEN LoginResult(401, "Invalid email or password", NoToken)
            ELSE LET users == { u \in ClerkUsers : u.email = email }
                 IN IF users = {}
                    THEN LoginResult(404, "User not found", NoToken)
                    ELSE IF verifyPassword = "throw" \/ password # "right"
                         THEN LoginResult(401, "Invalid email or password", NoToken)
                         ELSE LoginResult(200, None,
                                          jwtPayload(CHOOSE u \in users : TRUE))

\* The handler of routes/auth.ts: a throw of getUserList reaches the outer
\* catch (401 for the code user_not_found, 500 otherwise); every throw of
\* verifyPassword is taken by the inner catch and answered 401
login(email, password, getUserList, verifyPassword) ==
  IF email = None \/ password = None
  THEN LoginResult(400, "Email and password are required", NoToken)
  ELSE IF getUserList = "throw"
       THEN LoginResult(500, "Login failed", NoToken)
       ELSE IF getUserList = "user_not_found"
            THEN LoginResult(401, "Invalid email or password", NoToken)
            ELSE LET users == { u \in ClerkUsers : u.email = email }
                 IN IF users = {}
                    THEN LoginResult(401, "Invalid email or password", NoToken)
                    ELSE IF verifyPassword = "throw" \/ password # "right"
                         THEN LoginResult(401, "Invalid email or password", NoToken)
                         ELSE LoginResult(200, None,
                                          jwtPayload(CHOOSE u \in users : TRUE))

\* ------------------------------------------------------------------------
\* Routes and their middleware chains
\* ------------------------------------------------------------------------
\* process.env.FRONTEND_URL: unset, or the address of a deployed front end
FrontendUrls == {None, "https://app.example"}

\* allowedOrigins of the app: the twelve literals and FRONTEND_URL, or
\* 'exp://192.168.101.75:8081' once more when FRONTEND_URL is unset
allowedOrigins(frontendUrl) ==
  {"exp://localhost:8081", "exp://127.0.0.1:8081", "exp://192.168.101.73:8081",
   "exp://192.168.101.75:8081", "http://localhost:8081", "http://127.0.0.1:8081",
   "http://192.168.101.73:8081", "http://192.168.101.75:8081",
   "http://localhost:3000", "http://127.0.0.1:3000", "http://localhost:19006",
   "http://192.168.101.75:19006",
   IF frontendUrl = None THEN "exp://192.168.101.75:8081" ELSE frontendUrl}

\* The Origin headers of requests: none (mobile apps, curl), three of the
\* literals of allowedOrigins, the front end's address, and two others
NoOrigin == None

Origins ==
  {NoOrigin, "http://localhost:3000", "http://127.0.0.1:3000",
   "exp://localhost:8081", "https://app.example", "https://evil.example",
   "https://other.example"}

\* The Error the cors origin callback is called with
NoError == [name |-> None, message |-> None]

corsError(origin) ==
  [name |-> "Error",
   message |-> CASE origin = "https://evil.example" ->
                      "CORS policy: Origin https://evil.example not allowed"
                 [] origin = "https://other.example" ->
                      "CORS policy: Origin https://other.example not allowed"
                 [] origin = "https://app.example" ->
                      "CORS policy: Origin https://app.example not allowed"]

\* The origin function of the cors configuration
corsOrigin(origin, frontendUrl) ==
  IF origin = NoOrigin \/ origin \in allowedOrigins(frontendUrl)
  THEN NoError
  ELSE corsError(origin)

\* process.env.NODE_ENV
NodeEnvs == {"development", "production"}

\* The error handling middleware of the app
errorMiddleware(err, nodeEnv) ==
  IF err.name = "UnauthorizedError"
  THEN Failure(401, "Unauthorized access")
  ELSE Failure(500, IF nodeEnv = "development" THEN err.message
                    ELSE "Internal server error")

ScopedRoutes ==
  {"fees/history", "fees/pending", "attendance/summary", "attendance/report",
   "exams/results"}

Routes ==
  ScopedRoutes \cup
  {"auth/login", "exams/report-card", "parents/children/attendance",
   "teachers/attendance", "attendance/classes", "exams/upcoming"}

\* The routes registered with requireRole([...]) and its argument
roleGated(r) == r \in {"parents/children/attendance", "teachers/attendance"}

allowedRoles(r) ==
  CASE r = "parents/children/attendance" -> {"parent"}
    [] r = "teachers/attendance" -> {"teacher"}
    [] OTHER -> Roles

\* The routes whose handler reads a student id parameter (studentId, or
\* childId on the parents route)
readsStudentId(r) ==
  r \in {"fees/history", "fees/pending", "attendance/report", "exams/results",
         "exams/report-card", "parents/children/attendance"}

\* Request inputs
StudentIdParams == {None, "S1", "S2", "S3", "S4", "S9"}

ClassIdParams == {None, "1", "2", "9"}

LoginEmails == {None, "nobody@x"} \cup { u.email : u \in ClerkUsers }

LoginPasswords == {None, "right", "wrong"}

NoResponse ==
  [status |-> 0, error |-> None, scope |-> {}, query |-> {}, data |-> {},
   token |-> NoToken, role |-> None]

Respond(h) ==
  [status |-> h.status, error |-> h.error, scope |-> h.scope, query |-> h.query,
   data |-> h.data, token |-> NoToken, role |-> None]

RespondError(status, error) == Respond(Failure(status, error))

\* ------------------------------------------------------------------------
\* Requests served side by side (the handlers suspend at every await) and
\* the handlers that write
\* ------------------------------------------------------------------------

\* Two requests can be in flight at once
Slots == {1, 2}

\* The number of requests that arrive in a run
MaxRequests == 3

\* The fee record a handler holds after its read
NoFee == [id |-> None, paidAmount |-> 0, totalAmount |-> 0]

\* A request object: its inputs (lessonId and a numeric classId are 0 when
\* the body has none), what the middleware attached, the fee read by POST
\* /payment, the record found by POST /attendance/mark (its position, 0 for
\* none), and the response
IdleCall ==
  [pc |-> "idle", route |-> None, header |-> NoHeader, studentId |-> None,
   feeId |-> None, amount |-> 0, id |-> None,
   classId |-> None, lessonId |-> 0, status |-> None, date |-> None,
   existingAttendance |-> 0,
   userId |-> None, userRole |-> None, userEmail |-> None,
   userProfile |-> NoProfile, fee |-> NoFee, sentBy |-> None,
   response |-> NoResponse]

\* prisma.fee.findFirst({ where: { id: feeId, studentId: ... } }) of
\* POST /api/fees/payment: the fee ids matching for the caller
payableFees(role, profile, feeId, feeTable) ==
  { f \in DOMAIN feeTable :
      /\ f = feeId
      /\ CASE role = "student" ->
                profile.id = None \/ feeTable[f].studentId = profile.id
           [] role = "parent" -> feeTable[f].studentId \in childrenOf(profile.id)
           [] OTHER -> FALSE }

\* newPaidAmount and newStatus of POST /api/fees/payment, computed from the
\* fee record read at the start of the handler
paidFee(current, fee, amount) ==
  [current EXCEPT
     !.paidAmount = fee.paidAmount + amount,
     !.status = IF fee.paidAmount + amount >= fee.totalAmount
                THEN "PAID" ELSE "PARTIAL"]

\* The where clause of PATCH /api/notifications/:id/read (an empty OR
\* matches nothing; no notification names an admin or accountant)
addressedTo(n, role, profile) ==
  CASE role = "student" ->
         (profile.id # None /\ n.studentId = profile.id) \/ n.targetRole = "student"
    [] role = "teacher" ->
         (profile.id # None /\ n.teacherId = profile.id) \/ n.targetRole = "teacher"
    [] role = "parent" ->
         \/ (profile.id # None /\ n.parentId = profile.id)
         \/ n.targetRole = "parent"
         \/ n.studentId \in childrenOf(profile.id)
    [] role \in {"admin", "accountant"} -> n.targetRole = role
    [] OTHER -> FALSE

\* updateMany({ where: { id, OR: [...] } }): the ids updated
markedRead(id, role, profile, table) ==
  { n \in DOMAIN table : n = id /\ addressedTo(table[n], role, profile) }

\* What requireAuth can do with a header under a middleware version
authOutcomes(mwv, h) ==
  IF mwv \in {"jwt", "jwtNoProfile"}
  THEN { requireAuthJwt(h, prov) : prov \in ProviderOutcomes(h.token) }
  ELSE { requireAuthClerk(h, g, prov) :
           g \in GetAuthUsers(h), prov \in VerifyTokenOutcomes(h.token) }

\* What getUserProfile can do with what requireAuth attached
profileOutcomes(mwv, uid, role, email) ==
  CASE mwv = "jwt" -> getUserProfileJwt(uid, role, email)
    [] mwv = "jwtNoProfile" -> getUserProfileNoop(uid, role, email)
    [] OTHER -> { getUserProfileClerk(uid, clerk) : clerk \in {"ok", "throw"} }

\* getUserProfile as it would read the identity if requireAuth kept it in
\* one module-level place instead of on the request: the first slot's
identityOf_Global(p) == 1

\* The request object whose userId a getUserProfile invocation reads: the
\* req it was called with
identityOf(p) == p

\* The routers the app mounts under /api (app.use('/api/<name>', ...)); the
\* notifications router of part_006 is not among them
mountedRouters ==
  {"auth", "students", "teachers", "parents", "dashboard", "attendance", "admin",
   "fees", "exams"}

\* The app has a router for the route's first path segment; a request for
\* any other path falls through to the 404 handler
served(r) ==
  LET router ==
        CASE r \in {"notifications/read", "notifications/read-all",
                    "notifications/unread-count"} -> "notifications"
          [] r = "students/notifications/read" -> "students"
          [] r \in {"teachers/mark-attendance", "teachers/attendance"} -> "teachers"
          [] r = "parents/children/attendance" -> "parents"
          [] r = "admin/attendance/mark" -> "admin"
          [] r \in {"attendance/mark", "attendance/summary", "attendance/report",
                    "attendance/classes"} -> "attendance"
          [] r \in {"fees/payment", "fees/history", "fees/pending"} -> "fees"
          [] r \in {"exams/results", "exams/report-card", "exams/upcoming"} -> "exams"
          [] r = "auth/login" -> "auth"
          [] OTHER -> None
  IN router \in mountedRouters

\* The routes and inputs of the requests served side by side
ConcRoutes ==
  {"fees/payment", "students/notifications/read", "fees/history",
   "attendance/summary"}

gatedRoles(r) ==
  CASE r = "fees/payment" -> {"student", "parent"}
    [] r \in {"teachers/mark-attendance", "attendance/mark"} -> {"teacher"}
    [] r = "admin/attendance/mark" -> {"admin"}
    [] r = "students/notifications/read" -> {"student"}
    [] OTHER -> Roles

ConcHeaders ==
  { [scheme |-> "Bearer", token |-> jwtPayload(ClerkUser("S1"))],
    [scheme |-> "Bearer", token |-> jwtPayload(ClerkUser("P1"))],
    [scheme |-> "Bearer", token |-> jwtPayload(ClerkUser("T1"))],
    [scheme |-> "Bearer",
     token |-> [kind |-> "clerk", userId |-> "S1", role |-> None, email |-> None]],
    [scheme |-> "Bearer", token |-> BadToken] }

FeeIdParams == {"F1", "F3"}

Amounts == {1}

NotificationIdParams == {"N1", "N2"}

\* ------------------------------------------------------------------------
\* The handlers that write attendance and the notification counters
\* ------------------------------------------------------------------------

\* prisma.lesson.findFirst({ where: { id: lessonId, teacherId } }): the
\* lessons it can return (a body without lessonId leaves the id filter out)
ownLessons(lessonId, teacherId) ==
  { l \in LessonTable :
      /\ lessonId = 0 \/ l.id = lessonId
      /\ teacherId = None \/ l.teacherId = teacherId }

\* prisma.class.findFirst({ where: { id: classId, supervisorId } })
ownClasses(classId, teacherId) ==
  { c \in ClassTable :
      c.id = classId /\ (teacherId = None \/ c.supervisorId = teacherId) }

\* String(s).toUpperCase(): s is the string as the sequence of its
\* characters (ASCII); each lower-case letter becomes its capital, every
\* other character stays
toUpperCase(s) ==
  LET upper(c) ==
          CASE c = "a" -> "A" [] c = "b" -> "B" [] c = "c" -> "C" [] c = "d" -> "D"
            [] c = "e" -> "E" [] c = "f" -> "F" [] c = "g" -> "G" [] c = "h" -> "H"
            [] c = "i" -> "I" [] c = "j" -> "J" [] c = "k" -> "K" [] c = "l" -> "L"
            [] c = "m" -> "M" [] c = "n" -> "N" [] c = "o" -> "O" [] c = "p" -> "P"
            [] c = "q" -> "Q" [] c = "r" -> "R" [] c = "s" -> "S" [] c = "t" -> "T"
            [] c = "u" -> "U" [] c = "v" -> "V" [] c = "w" -> "W" [] c = "x" -> "X"
            [] c = "y" -> "Y" [] c = "z" -> "Z"
            [] OTHER -> c
  IN [i \in DOMAIN s |-> upper(s[i])]

\* normalizeStatus of POST /api/teachers/mark-attendance: the value of the
\* AttendanceStatus enum the record is created with
normalizeStatus(st) ==
  LET up == toUpperCase(st)
  IN CASE up = <<"P", "R", "E", "S", "E", "N", "T">> -> "PRESENT"
       [] up = <<"A", "B", "S", "E", "N", "T">> -> "ABSENT"
       [] up = <<"L", "A", "T", "E">> -> "LATE"
       [] OTHER -> "PRESENT"

\* An Attendance record
AttendanceRecord(sid, classId, lessonId, date, status) ==
  [studentId |-> sid, classId |-> classId, lessonId |-> lessonId,
   date |-> date, status |-> status]

\* prisma.attendance.findFirst({ where: { studentId, classId, date } }) of
\* POST /api/admin/attendance/mark: the positions of the matching records
existingAttendances(records, sid, classId, date) ==
  { i \in 1..Len(records) :
      /\ records[i].studentId = sid
      /\ records[i].classId = classId
      /\ records[i].date = date }

\* The where clause of GET /api/notifications/unread-count without its
\* isRead filter: the clause of read-all, and for a student the
\* notifications of the class of the enrollment found
countedFor(n, role, profile, enrollment) ==
  \/ addressedTo(n, role, profile)
  \/ /\ role = "student"
     /\ enrollment # NoEnrollment
     /\ n.relatedClassId = enrollment.classId

\* The requests made of the writing routes
BearerJwt(id) == [scheme |-> "Bearer", token |-> jwtPayload(ClerkUser(id))]

BearerClerk(id) ==
  [scheme |-> "Bearer",
   token |-> [kind |-> "clerk", userId |-> id, role |-> None, email |-> None]]

\* The bodies of POST /api/teachers/mark-attendance carry classId as a
\* number and the status as typed by the client (its characters)
MarkAttendanceRequests ==
  { [IdleCall EXCEPT !.route = "teachers/mark-attendance", !.header = BearerJwt("T1"),
                     !.studentId = "S1", !.lessonId = b[1], !.classId = b[2],
                     !.status = b[3]] :
      b \in {<<1, 0, <<"l", "A", "t", "E">>>>, <<1, 0, <<"h", "e", "r", "e">>>>,
             <<0, 3, <<"A", "b", "s", "e", "n", "t">>>>,
             <<3, 3, <<"L", "a", "t", "e">>>>} }

StoreRequests ==
  { [IdleCall EXCEPT !.route = "attendance/mark", !.header = BearerJwt("T1"),
                     !.studentId = "S4", !.classId = k, !.date = "D1",
                     !.status = "PRESENT"] : k \in {"1", "3"} }
  \cup
  { [IdleCall EXCEPT !.route = "admin/attendance/mark", !.header = BearerJwt("A1"),
                     !.studentId = "S1", !.classId = "1", !.date = "D1",
                     !.status = st] : st \in {"PRESENT", "ABSENT"} }
  \cup
  { [IdleCall EXCEPT !.route = "fees/payment", !.header = b[1], !.feeId = b[2],
                     !.amount = 1] :
      b \in {<<BearerJwt("S1"), "F1">>, <<BearerJwt("S1"), "F3">>,
             <<BearerClerk("H1"), "F3">>, <<BearerJwt("P1"), "F1">>} }
  \cup
  { [IdleCall EXCEPT !.route = "notifications/read", !.header = BearerJwt("S1"),
                     !.id = n] : n \in {"N3", "N2"} }
  \cup
  { [IdleCall EXCEPT !.route = "students/notifications/read",
                     !.header = BearerJwt("S2"), !.id = n] : n \in {"N3", "N1"} }

\* The number of those requests that arrive in a run
MaxCalls == 2

\* ------------------------------------------------------------------------
\* State
\* ------------------------------------------------------------------------
VARIABLES
  mw,           \* the middleware/auth version deployed
  pc,           \* the stage about to run for the current request
  route,        \* the route requested
  header,       \* its Authorization header
  studentId,    \* its studentId / childId query parameter
  classId,      \* its classId query parameter
  email,        \* body.email (login)
  password,     \* body.password (login)
  userId,       \* req.userId
  userRole,     \* req.userRole
  userEmail,    \* req.userEmail
  userProfile,  \* req.userProfile
  authTrace,    \* the verifications requireAuth attempted, in order
  outage,       \* the collaborator that could not be reached for the request
  passed,       \* the stages that called next(), in order
  sentBy,       \* the stage that sent the response
  response,     \* the response sent
  fees,         \* the Fee table: fee id -> record
  payments,     \* the Payment table: the records created, in order
  notifications,\* the Notification table: id -> record
  attendance,   \* the Attendance records created by the mark routes, in order
  calls,        \* the requests in flight side by side: slot -> request
  started       \* the number of those requests that have arrived

\* The stores and the requests served side by side
dataVars == <<fees, payments, notifications, attendance, calls, started>>

\* The request served on its own
soloVars ==
  <<pc, route, header, studentId, classId, email, password, userId, userRole,
    userEmail, userProfile, authTrace, outage, passed, sentBy, response>>

vars == <<mw, soloVars, dataVars>>

reqVars == <<route, header, studentId, classId, email, password>>

Init ==
  /\ mw \in {"jwt", "jwtNoProfile", "clerk"}
  /\ pc = "idle"
  /\ route = None
  /\ header = NoHeader
  /\ studentId = None
  /\ classId = None
  /\ email = None
  /\ password = None
  /\ userId = None
  /\ userRole = None
  /\ userEmail = None
  /\ userProfile = NoProfile
  /\ authTrace = <<>>
  /\ outage = None
  /\ passed = <<>>
  /\ sentBy = None
  /\ response = NoResponse
  /\ fees = [f \in FeeIds |-> CHOOSE r \in FeeTable : r.id = f]
  /\ payments = <<>>
  /\ notifications = [n \in NotificationIds |-> CHOOSE r \in NotificationTable : r.id = n]
  /\ attendance = <<>>
  /\ calls = [p \in Slots |-> IdleCall]
  /\ started = 0

\* A request arrives from an origin the cors middleware lets through: a
\* fresh request object, nothing sent yet
NewRequest ==
  /\ pc = "idle"
  /\ \E r \in Routes :
       /\ route' = r
       /\ IF r = "auth/login"
          THEN /\ email' \in LoginEmails
               /\ password' \in LoginPasswords
               /\ header' = NoHeader
               /\ studentId' = None
               /\ classId' = None
               /\ pc' = "handler"
          ELSE /\ email' = None
               /\ password' = None
               /\ header' \in Headers
               /\ studentId' \in (IF readsStudentId(r) THEN StudentIdParams ELSE {None})
               /\ classId' \in (IF r = "exams/upcoming" THEN ClassIdParams ELSE {None})
               /\ pc' = "requireAuth"
  /\ userId' = None
  /\ userRole' = None
  /\ userEmail' = None
  /\ userProfile' = NoProfile
  /\ authTrace' = <<>>
  /\ outage' = None
  /\ passed' = <<>>
  /\ sentBy' = None
  /\ response' = NoResponse
  /\ UNCHANGED <<mw, dataVars>>

\* A request arrives from an origin the cors middleware refuses: the error
\* goes to the error handling middleware, which answers it before any
\* router sees the request
CorsBlocked ==
  /\ pc = "idle"
  /\ \E origin \in Origins, frontendUrl \in FrontendUrls, nodeEnv \in NodeEnvs :
       /\ corsOrigin(origin, frontendUrl) # NoError
       /\ response' = Respond(errorMiddleware(corsOrigin(origin, frontendUrl),
                                               nodeEnv))
  /\ sentBy' = "errorHandler"
  /\ pc' = "done"
  /\ UNCHANGED <<mw, dataVars, route, header, studentId, classId, email, password,
                 userId, userRole, userEmail, userProfile, authTrace, outage,
                 passed>>

\* requireAuth's outcome as it would be with the return after the failure
\* response missing: the response is sent and next() is called as well
AuthOutcome_NoReturn(r) ==
  /\ authTrace' = r.trace
  /\ userId' = r.userId
  /\ userRole' = r.userRole
  /\ userEmail' = r.userEmail
  /\ passed' = Append(passed, "requireAuth")
  /\ pc' = "getUserProfile"
  /\ IF r.status = 0
     THEN UNCHANGED <<sentBy, response>>
     ELSE /\ response' = RespondError(r.status, r.error)
          /\ sentBy' = "requireAuth"
  /\ UNCHANGED <<mw, dataVars, reqVars, userProfile>>

\* A middleware's outcome: next() moves on to the following stage, a sent
\* response ends the request
AuthOutcome(r) ==
  /\ authTrace' = r.trace
  /\ IF r.status = 0
     THEN /\ userId' = r.userId
          /\ userRole' = r.userRole
          /\ userEmail' = r.userEmail
          /\ passed' = Append(passed, "requireAuth")
          /\ pc' = "getUserProfile"
          /\ UNCHANGED <<sentBy, response>>
     ELSE /\ response' = RespondError(r.status, r.error)
          /\ sentBy' = "requireAuth"
          /\ pc' = "done"
          /\ UNCHANGED <<userId, userRole, userEmail, passed>>
  /\ UNCHANGED <<mw, dataVars, reqVars, userProfile>>

\* The provider was unreachable when the middleware called it (the call
\* is the second verification of the trace)
providerOutage(r, prov) ==
  IF prov = "down" /\ Len(r.trace) = 2 THEN "provider" ELSE None

RequireAuthJwt ==
  /\ pc = "requireAuth"
  /\ mw \in {"jwt", "jwtNoProfile"}
  /\ \E prov \in ProviderOutcomes(header.token) :
       /\ AuthOutcome(requireAuthJwt(header, prov))
       /\ outage' = providerOutage(requireAuthJwt(header, prov), prov)

RequireAuthClerk ==
  /\ pc = "requireAuth"
  /\ mw = "clerk"
  /\ \E g \in GetAuthUsers(header), prov \in VerifyTokenOutcomes(header.token) :
       /\ AuthOutcome(requireAuthClerk(header, g, prov))
       /\ outage' = providerOutage(requireAuthClerk(header, g, prov), prov)

\* part_002 line 45: await verifyToken(...) carries no timeout; a call that
\* never settles leaves the request pending with nothing sent
VerifyTokenPending ==
  /\ pc = "requireAuth"
  /\ mw = "clerk"
  /\ header.scheme # "absent"
  /\ pc' = "pending"
  /\ authTrace' = <<"provider", "provider">>
  /\ outage' = "provider"
  /\ UNCHANGED <<mw, dataVars, reqVars, userId, userRole, userEmail, userProfile, passed,
                 sentBy, response>>

ProfileOutcome(r) ==
  /\ IF r.status = 0
     THEN /\ userRole' = r.userRole
          /\ userProfile' = r.userProfile
          /\ passed' = Append(passed, "getUserProfile")
          /\ pc' = IF roleGated(route) THEN "requireRole" ELSE "handler"
          /\ UNCHANGED <<sentBy, response>>
     ELSE /\ response' = RespondError(r.status, r.error)
          /\ sentBy' = "getUserProfile"
          /\ pc' = "done"
          /\ UNCHANGED <<userRole, userProfile, passed>>
  /\ UNCHANGED <<mw, dataVars, reqVars, userId, userEmail, authTrace>>

\* db is "ok", or "throw" when the persistence engine cannot be reached by
\* the first query of the middleware
GetUserProfileJwt ==
  /\ pc = "getUserProfile"
  /\ mw = "jwt"
  /\ \E db \in {"ok", "throw"} :
       LET reached == userId # None /\ userRole \in {"student", "teacher", "parent", "admin"}
       IN IF db = "throw" /\ reached
          THEN ProfileOutcome(getUserProfileCatch) /\ outage' = "persistence"
          ELSE /\ \E r \in getUserProfileJwt(userId, userRole, userEmail) :
                    ProfileOutcome(r)
               /\ UNCHANGED outage

GetUserProfileNoop ==
  /\ pc = "getUserProfile"
  /\ mw = "jwtNoProfile"
  /\ \E r \in getUserProfileNoop(userId, userRole, userEmail) : ProfileOutcome(r)
  /\ UNCHANGED outage

\* clerk is "ok", or "throw" when clerkClient.users.getUser cannot reach the
\* provider
GetUserProfileClerk ==
  /\ pc = "getUserProfile"
  /\ mw = "clerk"
  /\ \E db \in {"ok", "throw"}, clerk \in {"ok", "throw"} :
       IF db = "throw" /\ userId # None
       THEN ProfileOutcome(getUserProfileCatch) /\ outage' = "persistence"
       ELSE /\ ProfileOutcome(getUserProfileClerk(userId, clerk))
            /\ outage' = IF clerk = "throw" /\ userId # None /\ firstMatch(userId) = None
                         THEN "provider" ELSE outage

\* part_002 line 164: await clerkClient.users.getUser(...) carries no
\* timeout; a call that never settles leaves the request pending
GetUserPending ==
  /\ pc = "getUserProfile"
  /\ mw = "clerk"
  /\ userId # None
  /\ firstMatch(userId) = None
  /\ pc' = "pending"
  /\ outage' = "provider"
  /\ UNCHANGED <<mw, dataVars, reqVars, userId, userRole, userEmail, userProfile,
                 authTrace, passed, sentBy, response>>

RequireRole ==
  /\ pc = "requireRole"
  /\ IF requireRole(allowedRoles(route), userRole)
     THEN /\ passed' = Append(passed, "requireRole")
          /\ pc' = "handler"
          /\ UNCHANGED <<sentBy, response>>
     ELSE /\ response' = RespondError(403, "Insufficient permissions")
          /\ sentBy' = "requireRole"
          /\ pc' = "done"
          /\ UNCHANGED passed
  /\ UNCHANGED <<mw, dataVars, reqVars, userId, userRole, userEmail, userProfile,
                 authTrace, outage>>

\* A route handler runs and sends the response
Handle(r, result) ==
  /\ pc = "handler"
  /\ route = r
  /\ response' = Respond(result)
  /\ sentBy' = "handler"
  /\ pc' = "done"
  /\ UNCHANGED <<mw, dataVars, reqVars, userId, userRole, userEmail, userProfile,
                 authTrace, outage, passed>>

Login ==
  /\ pc = "handler"
  /\ route = "auth/login"
  /\ \E getUserList \in GetUserListOutcomes,
        verifyPassword \in VerifyPasswordOutcomes :
       LET r == login(email, password, getUserList, verifyPassword)
       IN response' = [NoResponse EXCEPT !.status = r.status, !.error = r.error,
                                         !.token = r.token, !.role = r.role]
  /\ sentBy' = "handler"
  /\ pc' = "done"
  /\ UNCHANGED <<mw, dataVars, reqVars, userId, userRole, userEmail, userProfile,
                 authTrace, outage, passed>>

\* routes/auth.ts lines 30 and 56: await clerkClient.users.getUserList(...)
\* and await clerkClient.users.verifyPassword(...) carry no timeout; a call
\* that never settles leaves the request pending with nothing sent
LoginPending ==
  /\ pc = "handler"
  /\ route = "auth/login"
  /\ email # None
  /\ password # None
  /\ pc' = "pending"
  /\ outage' = "provider"
  /\ UNCHANGED <<mw, dataVars, reqVars, userId, userRole, userEmail, userProfile,
                 authTrace, passed, sentBy, response>>

FeesHistory == Handle("fees/history", feesHistory(userRole, userProfile, studentId))

FeesPending == Handle("fees/pending", feesPending(userRole, userProfile, studentId))

AttendanceSummary ==
  Handle("attendance/summary", attendanceSummary(userRole, userProfile))

AttendanceReport ==
  Handle("attendance/report", attendanceReport(userRole, userProfile, studentId))

ExamResults == Handle("exams/results", examResults(userRole, userProfile, studentId))

ReportCard == Handle("exams/report-card", reportCard(userRole, userProfile, studentId))

ChildrenAttendance ==
  Handle("parents/children/attendance",
         childrenAttendance(userRole, userProfile, studentId))

TeacherAttendance ==
  Handle("teachers/attendance", teacherAttendance(userRole, userProfile))

AttendanceClasses ==
  Handle("attendance/classes", attendanceClasses(userRole, userProfile))

\* GET /api/exams/upcoming
ExamsUpcoming ==
  \E enrollment \in currentEnrollments(userProfile.StudentId) :
    Handle("exams/upcoming",
           examsUpcoming(userRole, userProfile, classId, enrollment))

\* The response is out: the request object is dropped
Finish ==
  /\ pc = "done"
  /\ pc' = "idle"
  /\ route' = None
  /\ header' = NoHeader
  /\ studentId' = None
  /\ classId' = None
  /\ email' = None
  /\ password' = None
  /\ userId' = None
  /\ userRole' = None
  /\ userEmail' = None
  /\ userProfile' = NoProfile
  /\ authTrace' = <<>>
  /\ outage' = None
  /\ passed' = <<>>
  /\ sentBy' = None
  /\ response' = NoResponse
  /\ UNCHANGED <<mw, dataVars>>

Next ==
  \/ NewRequest
  \/ CorsBlocked
  \/ RequireAuthJwt
  \/ RequireAuthClerk
  \/ VerifyTokenPending
  \/ GetUserProfileJwt
  \/ GetUserProfileNoop
  \/ GetUserProfileClerk
  \/ GetUserPending
  \/ RequireRole
  \/ Login
  \/ LoginPending
  \/ FeesHistory
  \/ FeesPending
  \/ AttendanceSummary
  \/ AttendanceReport
  \/ ExamResults
  \/ ReportCard
  \/ ChildrenAttendance
  \/ TeacherAttendance
  \/ AttendanceClasses
  \/ ExamsUpcoming
  \/ Finish

Spec == Init /\ [][Next]_vars

\* The steps the server takes on its own: every continuation that is ready
\* is run by the event loop (the arrival of requests is not)
Progress ==
  \/ RequireAuthJwt \/ RequireAuthClerk \/ GetUserProfileJwt
  \/ GetUserProfileNoop \/ GetUserProfileClerk \/ RequireRole \/ Login
  \/ FeesHistory \/ FeesPending \/ AttendanceSummary \/ AttendanceReport
  \/ ExamResults \/ ReportCard \/ ChildrenAttendance \/ TeacherAttendance
  \/ AttendanceClasses \/ ExamsUpcoming \/ Finish

LiveSpec == Spec /\ WF_vars(Progress)


\* ------------------------------------------------------------------------
\* Requests served side by side over the stores.  Each action is the run
\* of one request from one suspension point to the next; the collaborators
\* answer (outages and pending calls are in Spec)
\* ------------------------------------------------------------------------

\* The request in slot p moves on with new field values
Step(p, c) ==
  /\ calls' = [calls EXCEPT ![p] = c]
  /\ UNCHANGED <<mw, soloVars, started>>

\* The request in slot p is answered
Answer(p, by, resp) ==
  Step(p, [calls[p] EXCEPT !.pc = "done", !.sentBy = by, !.response = resp])

Arrive(p) ==
  /\ calls[p].pc = "idle"
  /\ started < MaxRequests
  /\ started' = started + 1
  /\ \E r \in ConcRoutes, h \in ConcHeaders :
       \E f \in (IF r = "fees/payment" THEN FeeIdParams ELSE {None}),
          a \in (IF r = "fees/payment" THEN Amounts ELSE {0}),
          n \in (IF r = "students/notifications/read"
                 THEN NotificationIdParams ELSE {None}),
          sid \in (IF r = "fees/history" THEN {None, "S3"} ELSE {None}) :
         calls' = [calls EXCEPT ![p] =
                     [IdleCall EXCEPT !.pc = "requireAuth", !.route = r, !.header = h,
                                      !.feeId = f, !.amount = a, !.id = n,
                                      !.studentId = sid]]
  /\ UNCHANGED <<mw, soloVars, fees, payments, notifications, attendance>>

ConcRequireAuth(p) ==
  /\ calls[p].pc = "requireAuth"
  /\ \E r \in authOutcomes(mw, calls[p].header) :
       IF r.status = 0
       THEN Step(p, [calls[p] EXCEPT !.pc = "getUserProfile", !.userId = r.userId,
                                     !.userRole = r.userRole, !.userEmail = r.userEmail])
       ELSE Answer(p, "requireAuth", RespondError(r.status, r.error))
  /\ UNCHANGED <<fees, payments, notifications, attendance>>

ConcGetUserProfile(p) ==
  /\ calls[p].pc = "getUserProfile"
  /\ \E r \in profileOutcomes(mw, calls[identityOf(p)].userId, calls[p].userRole,
                               calls[p].userEmail) :
       IF r.status = 0
       THEN Step(p, [calls[p] EXCEPT
                       !.pc = IF gatedRoles(calls[p].route) # Roles
                              THEN "requireRole" ELSE "handler",
                       !.userRole = r.userRole, !.userProfile = r.userProfile])
       ELSE Answer(p, "getUserProfile", RespondError(r.status, r.error))
  /\ UNCHANGED <<fees, payments, notifications, attendance>>

ConcRequireRole(p) ==
  /\ calls[p].pc = "requireRole"
  /\ IF requireRole(gatedRoles(calls[p].route), calls[p].userRole)
     THEN Step(p, [calls[p] EXCEPT !.pc = "handler"])
     ELSE Answer(p, "requireRole", RespondError(403, "Insufficient permissions"))
  /\ UNCHANGED <<fees, payments, notifications, attendance>>

\* GET /api/fees/history as it would be if listing the history also marked
\* every notification read
ConcFeesHistory_MarksRead(p) ==
  /\ calls[p].pc = "handler"
  /\ calls[p].route = "fees/history"
  /\ Answer(p, "handler",
            Respond(feesHistory(calls[p].userRole, calls[p].userProfile,
                                calls[p].studentId)))
  /\ notifications' = [n \in DOMAIN notifications |->
                         [notifications[n] EXCEPT !.isRead = TRUE]]
  /\ UNCHANGED <<fees, payments, attendance>>

ConcFeesHistory(p) ==
  /\ calls[p].pc = "handler"
  /\ calls[p].route = "fees/history"
  /\ Answer(p, "handler",
            Respond(feesHistory(calls[p].userRole, calls[p].userProfile,
                                calls[p].studentId)))
  /\ UNCHANGED <<fees, payments, notifications, attendance>>

ConcAttendanceSummary(p) ==
  /\ calls[p].pc = "handler"
  /\ calls[p].route = "attendance/summary"
  /\ Answer(p, "handler",
            Respond(attendanceSummary(calls[p].userRole, calls[p].userProfile)))
  /\ UNCHANGED <<fees, payments, notifications, attendance>>

\* POST /api/fees/payment up to the first write: the fee is looked up
\* under the caller's filter; no fee is answered 404
PaymentRead(p) ==
  /\ calls[p].pc = "handler"
  /\ calls[p].route = "fees/payment"
  /\ LET c == calls[p]
         found == payableFees(c.userRole, c.userProfile, c.feeId, fees)
     IN IF derefThrows(c.userRole, c.userProfile, {"student", "parent"})
        THEN Answer(p, "handler", RespondError(500, "Failed to process payment"))
        ELSE IF found = {}
             THEN Answer(p, "handler",
                         RespondError(404, "Fee not found or access denied"))
             ELSE Step(p, [c EXCEPT !.pc = "paymentCreate",
                                    !.fee = [id |-> c.feeId,
                                             paidAmount |-> fees[c.feeId].paidAmount,
                                             totalAmount |-> fees[c.feeId].totalAmount]])
  /\ UNCHANGED <<fees, payments, notifications, attendance>>

\* await prisma.payment.create(...)
PaymentCreate(p) ==
  /\ calls[p].pc = "paymentCreate"
  /\ payments' = Append(payments, [feeId |-> calls[p].feeId, amount |-> calls[p].amount])
  /\ Step(p, [calls[p] EXCEPT !.pc = "paymentUpdate"])
  /\ UNCHANGED <<fees, notifications, attendance>>

\* await prisma.fee.update(...) with the amounts computed from the fee read
\* earlier, then the response
PaymentUpdate(p) ==
  /\ calls[p].pc = "paymentUpdate"
  /\ fees' = [fees EXCEPT ![calls[p].feeId] = paidFee(@, calls[p].fee, calls[p].amount)]
  /\ Answer(p, "handler", Respond(HandlerResult(200, None, {}, {}, {})))
  /\ UNCHANGED <<payments, notifications, attendance>>

\* PATCH /api/students/notifications/:id/read
StudentNotificationRead(p) ==
  /\ calls[p].pc = "handler"
  /\ calls[p].route = "students/notifications/read"
  /\ LET c == calls[p]
         hit == markedRead(c.id, "student", c.userProfile, notifications)
     IN IF derefThrows(c.userRole, c.userProfile, Roles)
        THEN /\ Answer(p, "handler",
                       RespondError(500, "Failed to mark notification as read"))
             /\ UNCHANGED notifications
        ELSE /\ notifications' = [n \in DOMAIN notifications |->
                                    IF n \in hit
                                    THEN [notifications[n] EXCEPT !.isRead = TRUE]
                                    ELSE notifications[n]]
             /\ IF hit = {}
                THEN Answer(p, "handler", RespondError(404, "Notification not found"))
                ELSE Answer(p, "handler", Respond(HandlerResult(200, None, {}, {}, {})))
  /\ UNCHANGED <<fees, payments, attendance>>

\* PATCH /:id/read of the notifications router
NotificationRead(p) ==
  /\ calls[p].pc = "handler"
  /\ calls[p].route = "notifications/read"
  /\ LET c == calls[p]
         hit == markedRead(c.id, c.userRole, c.userProfile, notifications)
     IN IF derefThrows(c.userRole, c.userProfile, Roles)
        THEN /\ Answer(p, "handler",
                       RespondError(500, "Failed to mark notification as read"))
             /\ UNCHANGED notifications
        ELSE /\ notifications' = [n \in DOMAIN notifications |->
                                    IF n \in hit
                                    THEN [notifications[n] EXCEPT !.isRead = TRUE]
                                    ELSE notifications[n]]
             /\ IF hit = {}
                THEN Answer(p, "handler",
                            RespondError(404, "Notification not found or access denied"))
                ELSE Answer(p, "handler", Respond(HandlerResult(200, None, {}, {}, {})))
  /\ UNCHANGED <<fees, payments, attendance>>

\* The response is out: the slot is free for the next request
ConcFinish(p) ==
  /\ calls[p].pc = "done"
  /\ started < MaxRequests
  /\ Step(p, IdleCall)
  /\ UNCHANGED <<fees, payments, notifications, attendance>>

ConcNext ==
  \E p \in Slots :
    \/ Arrive(p)
    \/ ConcRequireAuth(p)
    \/ ConcGetUserProfile(p)
    \/ ConcRequireRole(p)
    \/ ConcFeesHistory(p)
    \/ ConcAttendanceSummary(p)
    \/ PaymentRead(p)
    \/ PaymentCreate(p)
    \/ PaymentUpdate(p)
    \/ StudentNotificationRead(p)
    \/ ConcFinish(p)

ConcSpec == Init /\ [][ConcNext]_vars

\* ------------------------------------------------------------------------
\* The routes that write attendance, payments and notification flags,
\* two requests side by side; the middleware stages are those above
\* ------------------------------------------------------------------------

StoreArrive(p) ==
  /\ calls[p].pc = "idle"
  /\ started < MaxCalls
  /\ started' = started + 1
  /\ \/ \E c \in StoreRequests :
          calls' = [calls EXCEPT ![p] =
                      IF served(c.route)
                      THEN [c EXCEPT !.pc = "requireAuth"]
                      ELSE [c EXCEPT !.pc = "done", !.sentBy = "notFound",
                                     !.response = RespondError(404, "Route not found")]]
     \/ \E c \in MarkAttendanceRequests :
          calls' = [calls EXCEPT ![p] = [c EXCEPT !.pc = "requireAuth"]]
  /\ UNCHANGED <<mw, soloVars, fees, payments, notifications, attendance>>

\* prisma.lesson.findFirst found no lesson
NoLesson == [id |-> 0, classId |-> 0, teacherId |-> None]

\* POST /api/teachers/mark-attendance with one entry in attendanceRecords
TeacherMarkAttendance(p) ==
  /\ calls[p].pc = "handler"
  /\ calls[p].route = "teachers/mark-attendance"
  /\ LET c == calls[p]
         teacher == c.userProfile
         lessons == ownLessons(c.lessonId, teacher.id)
     IN IF derefThrows(c.userRole, teacher, Roles)
        THEN /\ Answer(p, "handler", RespondError(500, "Failed to mark attendance"))
             /\ UNCHANGED attendance
        ELSE \E lesson \in (IF lessons = {} THEN {NoLesson} ELSE lessons) :
               IF /\ lesson = NoLesson
                  /\ c.classId # 0
                  /\ ownClasses(c.classId, teacher.id) = {}
               THEN /\ Answer(p, "handler",
                         RespondError(403,
                           "You do not have permission to mark attendance for this class"))
                    /\ UNCHANGED attendance
               ELSE /\ attendance' =
                         Append(attendance,
                                AttendanceRecord(c.studentId,
                                  IF c.classId # 0 THEN c.classId ELSE lesson.classId,
                                  c.lessonId, "now", normalizeStatus(c.status)))
                    /\ Answer(p, "handler", Respond(HandlerResult(200, None, {}, {}, {})))
  /\ UNCHANGED <<fees, payments, notifications>>

\* POST /api/attendance/mark
AttendanceMark(p) ==
  /\ calls[p].pc = "handler"
  /\ calls[p].route = "attendance/mark"
  /\ LET c == calls[p]
     IN IF c.userRole # "teacher"
        THEN /\ Answer(p, "handler", RespondError(403, "Unauthorized"))
             /\ UNCHANGED attendance
        ELSE /\ attendance' =
                  Append(attendance,
                         AttendanceRecord(c.studentId, parseInt(c.classId), 0,
                                          c.date, c.status))
             /\ Answer(p, "handler", Respond(HandlerResult(200, None, {}, {}, {})))
  /\ UNCHANGED <<fees, payments, notifications>>

\* POST /api/admin/attendance/mark up to its write: findFirst returns one of
\* the matching records, or none
AdminMarkFind(p) ==
  /\ calls[p].pc = "handler"
  /\ calls[p].route = "admin/attendance/mark"
  /\ LET c == calls[p]
         found == existingAttendances(attendance, c.studentId, parseInt(c.classId),
                                      c.date)
     IN \E e \in (IF found = {} THEN {0} ELSE found) :
          Step(p, [c EXCEPT !.pc = "adminMarkWrite", !.existingAttendance = e])
  /\ UNCHANGED <<fees, payments, notifications, attendance>>

\* await prisma.attendance.update(...) or create(...), then the response
AdminMarkWrite(p) ==
  /\ calls[p].pc = "adminMarkWrite"
  /\ LET c == calls[p]
     IN attendance' =
          IF c.existingAttendance # 0
          THEN [attendance EXCEPT ![c.existingAttendance].status = c.status]
          ELSE Append(attendance,
                      AttendanceRecord(c.studentId, parseInt(c.classId), 0, c.date,
                                       c.status))
  /\ Answer(p, "handler", Respond(HandlerResult(200, None, {}, {}, {})))
  /\ UNCHANGED <<fees, payments, notifications>>

\* await prisma.fee.update(...) throws: the catch block answers
PaymentUpdateFails(p) ==
  /\ calls[p].pc = "paymentUpdate"
  /\ Answer(p, "handler", RespondError(500, "Failed to process payment"))
  /\ UNCHANGED <<fees, payments, notifications, attendance>>

\* PATCH /api/notifications/read-all
ReadAll(p) ==
  /\ calls[p].pc = "handler"
  /\ calls[p].route = "notifications/read-all"
  /\ LET c == calls[p]
     IN IF derefThrows(c.userRole, c.userProfile, Roles)
        THEN /\ Answer(p, "handler",
                       RespondError(500, "Failed to mark notifications as read"))
             /\ UNCHANGED notifications
        ELSE /\ notifications' =
                  [n \in DOMAIN notifications |->
                     IF /\ ~notifications[n].isRead
                        /\ addressedTo(notifications[n], c.userRole, c.userProfile)
                     THEN [notifications[n] EXCEPT !.isRead = TRUE]
                     ELSE notifications[n]]
             /\ Answer(p, "handler", Respond(HandlerResult(200, None, {}, {}, {})))
  /\ UNCHANGED <<fees, payments, attendance>>

\* GET /api/notifications/unread-count: data holds the notifications counted
UnreadCount(p) ==
  /\ calls[p].pc = "handler"
  /\ calls[p].route = "notifications/unread-count"
  /\ LET c == calls[p]
     IN IF derefThrows(c.userRole, c.userProfile, Roles)
        THEN Answer(p, "handler", RespondError(500, "Failed to get unread count"))
        ELSE \E enrollment \in currentEnrollments(c.userProfile.StudentId) :
               Answer(p, "handler",
                      Respond(HandlerResult(200, None, {}, {},
                        { n \in DOMAIN notifications :
                            /\ ~notifications[n].isRead
                            /\ countedFor(notifications[n], c.userRole,
                                          c.userProfile, enrollment) })))
  /\ UNCHANGED <<fees, payments, notifications, attendance>>

StoreNext ==
  \E p \in Slots :
    \/ StoreArrive(p)
    \/ ConcRequireAuth(p)
    \/ ConcGetUserProfile(p)
    \/ ConcRequireRole(p)
    \/ TeacherMarkAttendance(p)
    \/ AttendanceMark(p)
    \/ AdminMarkFind(p)
    \/ AdminMarkWrite(p)
    \/ PaymentRead(p)
    \/ PaymentCreate(p)
    \/ PaymentUpdate(p)
    \/ PaymentUpdateFails(p)
    \/ StudentNotificationRead(p)
    \/ ConcFinish(p)

StoreSpec == Init /\ [][StoreNext]_vars

\* ------------------------------------------------------------------------
\* The notifications router of part_006 on its own: the app does not mount
\* it (requests for /api/notifications/... end at the 404 handler above),
\* so its handlers run only where the router itself is handed the request
\* ------------------------------------------------------------------------

\* A request is handed to the router: PATCH /:id/read, PATCH /read-all or
\* GET /unread-count, by student S1 or S2
NotificationsArrive(p) ==
  /\ calls[p].pc = "idle"
  /\ started < MaxCalls
  /\ started' = started + 1
  /\ \E r \in {"notifications/read", "notifications/read-all",
               "notifications/unread-count"},
        u \in {"S1", "S2"} :
       \E n \in (IF r = "notifications/read" THEN {"N3", "N2"} ELSE {None}) :
         calls' = [calls EXCEPT ![p] =
                     [IdleCall EXCEPT !.pc = "requireAuth", !.route = r,
                                      !.header = BearerJwt(u), !.id = n]]
  /\ UNCHANGED <<mw, soloVars, fees, payments, notifications, attendance>>

NotificationsNext ==
  \E p \in Slots :
    \/ NotificationsArrive(p)
    \/ ConcRequireAuth(p)
    \/ ConcGetUserProfile(p)
    \/ NotificationRead(p)
    \/ ReadAll(p)
    \/ UnreadCount(p)
    \/ ConcFinish(p)

NotificationsSpec == Init /\ [][NotificationsNext]_vars

\* ------------------------------------------------------------------------
\* Properties
\* ------------------------------------------------------------------------

\* The route handler ran and answered
handled == pc = "done" /\ sentBy = "handler"

\* The stages that called next()
passedStages == { passed[i] : i \in 1..Len(passed) }

\* The children of a parent: the students whose parent reference is the id
ChildrenIds(parentId) == { s.id : s \in { t \in StudentTable : t.parentId = parentId } }

\* The classes a teacher supervises or holds a lesson in
TeacherClassIds(teacherId) ==
  { c.id : c \in { k \in ClassTable : k.supervisorId = teacherId } }
  \cup { l.classId : l \in { k \in LessonTable : k.teacherId = teacherId } }

\* The students (internal ids) enrolled in a teacher's classes
TeacherRoster(teacherId) ==
  { s.id : s \in { t \in StudentTable :
      \E e \in EnrollmentTable :
        e.studentId = t.StudentId /\ e.classId \in TeacherClassIds(teacherId) } }

\* C1: for a caller resolved to role student, on the routes that derive a
\* student scope from the role, the ids that filter the data query are
\* exactly the caller's own profile id, whatever studentId was supplied.
C1_StudentQueriesOnlySelf ==
  ( /\ handled
    /\ userRole = "student"
    /\ route \in {"fees/history", "fees/pending", "attendance/report", "exams/results"}
    /\ response.status = 200 )
  => response.query = {userProfile.id}

\* C2: for a parent caller with children C the computed scope is exactly C,
\* and a request naming a student id outside C is answered 403.
C2_ParentScopeAndForbidden ==
  ( /\ handled
    /\ userRole = "parent"
    /\ userProfile.table = "parent" )
  => /\ ( /\ readsStudentId(route)
          /\ studentId # None
          /\ studentId \notin ChildrenIds(userProfile.id) )
        => response.status = 403
     /\ (route \in ScopedRoutes /\ response.status = 200)
        => response.scope = ChildrenIds(userProfile.id)

\* C3: for a teacher caller the computed student scope is the students of
\* every class the teacher supervises together with the students of every
\* class the teacher holds a lesson in, on every route computing a scope.
C3_TeacherScopeIsRoster ==
  ( /\ handled
    /\ userRole = "teacher"
    /\ userProfile.table = "teacher"
    /\ route \in {"attendance/summary", "attendance/report", "exams/results"}
    /\ response.status = 200 )
  => response.scope = TeacherRoster(userProfile.id)

\* C4: a teacher's request naming a student enrolled in none of the
\* teacher's supervised or taught classes is answered 403 and returns none
\* of that student's records.
C4_TeacherOutsideRosterForbidden ==
  ( /\ handled
    /\ userRole = "teacher"
    /\ userProfile.table = "teacher"
    /\ route \in {"exams/report-card", "attendance/report", "exams/results"}
    /\ studentId # None
    /\ studentId \notin TeacherRoster(userProfile.id) )
  => /\ response.status = 403
     /\ studentId \notin response.data

\* C5: for an admin or accountant caller, on every route computing a
\* student scope, the scope is all student ids when no id is requested and
\* exactly the requested id otherwise.
C5_AdminAccountantScope ==
  ( /\ handled
    /\ userRole \in {"admin", "accountant"}
    /\ route \in ScopedRoutes
    /\ response.status = 200 )
  => response.scope = IF readsStudentId(route) /\ studentId # None
                      THEN {studentId}
                      ELSE AllStudentIds

\* An identity the provider verified that has no profile in any of the
\* five collections and no usable role hint in the provider's metadata
Unprovisioned(id) ==
  /\ id \in ClerkIds
  /\ firstMatch(id) = None
  /\ toLowerCase(ClerkUser(id).role) \notin Roles

\* C6: an identity without profile and without usable role hint is never
\* given a role: no token or response carries one of the five roles for it,
\* the request never gets past profile resolution, and resolution answers
\* 404.
C6_NoRoleWithoutProfile ==
  /\ Unprovisioned(response.token.userId) => response.token.role \notin Roles
  /\ Unprovisioned(userId)
     => /\ userRole \notin Roles
        /\ "getUserProfile" \notin passedStages
        /\ (pc = "done" /\ "requireAuth" \in passedStages)
           => (sentBy = "getUserProfile" /\ response.status = 404)

\* C7: a request past profile resolution carries exactly one role, one of
\* the five, namely the first collection in the order student, teacher,
\* parent, admin, accountant that holds the id, and its profile is the
\* record found in that collection.
C7_FirstMatchRoleAndProfile ==
  "getUserProfile" \in passedStages
  => /\ userRole \in Roles
     /\ userRole = firstMatch(userId)
     /\ userProfile.table = userRole
     /\ userProfile.id = userId
     /\ ~userProfile.synthesized

\* C8: requireAuth answers 401 and does not call next() when the header is
\* missing or is no bearer credential, and when neither local nor provider
\* verification accepts the token; it calls next() only with userId set.
C8_UnauthenticatedIs401 ==
  (route \notin {None, "auth/login"} /\ pc # "requireAuth")
  => /\ ( \/ header.scheme # "Bearer"
          \/ (~jwtVerifies(header.token) /\ ~clerkVerifies(header.token)) )
        => (sentBy = "requireAuth" /\ response.status = 401)
     /\ "requireAuth" \in passedStages => userId # None

\* C9: a request authenticated by the provider (its token is the
\* provider's, carrying no role claim) whose id matches a profile gets that
\* profile's role in resolution and is never answered 401 or 403 by
\* getUserProfile, nor by requireRole when the route allows that role.
C9_ProviderPathResolvesRole ==
  ( /\ "requireAuth" \in passedStages
    /\ header.token.kind = "clerk"
    /\ firstMatch(userId) # None )
  => /\ sentBy # "getUserProfile"
     /\ "getUserProfile" \in passedStages => userRole = firstMatch(userId)
     /\ sentBy = "requireRole" => firstMatch(userId) \notin allowedRoles(route)

\* C10: in requireAuth of middleware/auth.ts local verification is attempted
\* first for every bearer token, and the provider is consulted only after
\* local verification of that token failed, never after it succeeded.
C10_LocalBeforeProvider ==
  ( /\ mw \in {"jwt", "jwtNoProfile"}
    /\ route \notin {None, "auth/login"}
    /\ pc # "requireAuth" )
  => /\ header.scheme = "Bearer" <=> authTrace # <<>>
     /\ authTrace # <<>> => authTrace[1] = "local"
     /\ (\E i \in 1..Len(authTrace) : authTrace[i] = "provider")
        => (authTrace = <<"local", "provider">> /\ ~jwtVerifies(header.token))
     /\ jwtVerifies(header.token) /\ header.scheme = "Bearer"
        => authTrace = <<"local">>

\* The provider was consulted after local verification failed, and
\* authenticated the request
C10_Witness ==
  /\ mw \in {"jwt", "jwtNoProfile"}
  /\ authTrace = <<"local", "provider">>
  /\ ~jwtVerifies(header.token)
  /\ "requireAuth" \in passedStages
  /\ userId # None

\* The provider users POST /login finds for an e-mail
usersByEmail(e) == { u \in ClerkUsers : u.email = e }

\* C11: every token POST /login issues for a provider user (id u, role r as
\* login determined it, e-mail e) is accepted by requireAuth of
\* middleware/auth.ts on the local path, whatever the provider would say,
\* and puts userId = u, userRole = r and userEmail = e on the request; and
\* every request that passed requireAuth with such a token carries exactly
\* the token's claims.
C11_TokenRoundTrip ==
  /\ ( /\ handled
       /\ route = "auth/login"
       /\ response.status = 200 )
     => \A u \in usersByEmail(email) :
          \A prov \in {"user", "null", "throw"} :
            requireAuthJwt([scheme |-> "Bearer", token |-> response.token], prov)
              = AuthResult(0, None, u.id, loginRole(u), u.email, <<"local">>)
  /\ ( /\ mw \in {"jwt", "jwtNoProfile"}
       /\ header.scheme = "Bearer"
       /\ header.token \in JwtTokens
       /\ pc \in {"getUserProfile", "requireRole", "handler", "done"} )
     => /\ "requireAuth" \in passedStages
        /\ authTrace = <<"local">>
        /\ userId = header.token.userId
        /\ userEmail = header.token.email
        /\ (pc = "getUserProfile" => userRole = header.token.role)
        /\ (userRole # None => userRole = header.token.role)

\* A request carrying the token login issued for the provider user without
\* a role in the metadata passed requireAuth with the role login embedded
C11_Witness ==
  /\ mw \in {"jwt", "jwtNoProfile"}
  /\ pc = "getUserProfile"
  /\ header.scheme = "Bearer"
  /\ header.token = jwtPayload(ClerkUser("E2"))
  /\ userId = "E2"
  /\ userRole = "student"
  /\ userEmail = "e2@x"

\* The roles a route is declared for: the argument of requireRole, or for
\* GET /api/attendance/classes the roles its handler serves
declaredRoles(r) ==
  IF r = "attendance/classes" THEN {"teacher", "admin"} ELSE allowedRoles(r)

\* C12: on every route declared for a set of roles, a request that got past
\* profile resolution with no role or a role outside that set is answered
\* 403, not by the handler, and no query of the route ran for it.
C12_RoleCheckBeforeQueries ==
  ( /\ pc = "done"
    /\ (roleGated(route) \/ route = "attendance/classes")
    /\ "getUserProfile" \in passedStages
    /\ (userRole = None \/ userRole \notin declaredRoles(route)) )
  => /\ response.status = 403
     /\ sentBy # "handler"
     /\ response.query = {}
     /\ response.data = {}

\* The part of C12 that holds: on the routes registered with requireRole a
\* role outside the argument is answered 403 by requireRole and the
\* handler never runs
C12_RequireRoleRoutes ==
  ( /\ pc = "done"
    /\ roleGated(route)
    /\ "getUserProfile" \in passedStages
    /\ (userRole = None \/ userRole \notin allowedRoles(route)) )
  => /\ response.status = 403
     /\ sentBy = "requireRole"
     /\ response.query = {}
     /\ response.data = {}

\* The middleware chain a route is registered with
Chain(r) ==
  IF roleGated(r)
  THEN <<"requireAuth", "getUserProfile", "requireRole">>
  ELSE <<"requireAuth", "getUserProfile">>

\* The stage that runs after the stages in passed
stageAfter(r, done) ==
  IF Len(done) < Len(Chain(r)) THEN Chain(r)[Len(done) + 1] ELSE "handler"

\* C14: per request the stages run in the order requireAuth,
\* getUserProfile, requireRole, handler; every stage that runs either calls
\* next() once or sends one response, never both and never neither; after
\* a response nothing more runs for the request, and no stage runs twice.
C14_StagesInOrderOnce ==
  /\ [](route \notin {None, "auth/login"}
        => /\ Len(passed) <= Len(Chain(route))
           /\ passed = SubSeq(Chain(route), 1, Len(passed))
           /\ pc \in {"requireAuth", "getUserProfile", "requireRole", "handler"}
              => (pc = stageAfter(route, passed) /\ sentBy = None)
           /\ pc = "done" => sentBy = stageAfter(route, passed)
           /\ sentBy # None => (pc = "done" /\ response.status # 0)
           /\ sentBy = None => response = NoResponse)
  /\ [][ /\ sentBy # None => pc' = "idle"
         /\ (route \notin {None, "auth/login"} /\ pc' # "idle")
            => \/ (passed' = passed /\ sentBy = None /\ sentBy' # None)
               \/ (passed' = Append(passed, pc) /\ sentBy' = None
                     /\ response' = NoResponse) ]_vars

\* The stages that finish do so in order, by next() or by a response and
\* never both; the only other step of a stage is the one that leaves it
\* pending on a provider call, with nothing passed on and nothing sent
C14_FinishedStagesInOrderOnce ==
  /\ [](route \notin {None, "auth/login"}
        => /\ Len(passed) <= Len(Chain(route))
           /\ passed = SubSeq(Chain(route), 1, Len(passed))
           /\ pc \in {"requireAuth", "getUserProfile", "requireRole", "handler"}
              => (pc = stageAfter(route, passed) /\ sentBy = None)
           /\ pc = "pending" => sentBy = None
           /\ pc = "done" => sentBy = stageAfter(route, passed)
           /\ sentBy # None => (pc = "done" /\ response.status # 0)
           /\ sentBy = None => response = NoResponse)
  /\ [][ /\ sentBy # None => pc' = "idle"
         /\ (route \notin {None, "auth/login"} /\ pc' # "idle")
            => \/ (passed' = passed /\ sentBy = None /\ sentBy' # None)
               \/ (passed' = Append(passed, pc) /\ sentBy' = None
                     /\ response' = NoResponse)
               \/ (pc' = "pending" /\ passed' = passed /\ sentBy' = None) ]_vars

\* A request stopped by getUserProfile after requireAuth passed it on
C14_Witness ==
  /\ pc = "done"
  /\ passed = <<"requireAuth">>
  /\ sentBy = "getUserProfile"
  /\ response.status = 404

\* The request got through the whole chain of a role-gated route
C14_WitnessHandled ==
  /\ pc = "done"
  /\ passed = <<"requireAuth", "getUserProfile", "requireRole">>
  /\ sentBy = "handler"

\* C16: every request eventually receives a response, also when the
\* identity-provider call made for it never returns.
C16_EveryRequestAnswered ==
  (pc \notin {"idle", "done"}) ~> (pc = "done")

\* Every request is answered or is left pending on a provider call
C16_AnsweredUnlessPending ==
  (pc \notin {"idle", "done"}) ~> (pc \in {"done", "pending"})

\* C17: a request during whose credential verification or profile
\* resolution the identity provider or the persistence engine could not be
\* reached ends with 503.
C17_OutageIs503 ==
  ( /\ pc = "done"
    /\ outage # None
    /\ sentBy \in {"requireAuth", "getUserProfile"} )
  => response.status = 503

\* C18: for a caller whose profile was synthesized from the provider's role
\* hint every computed scope is empty and no student, fee, attendance or
\* result record is returned.
C18_SynthesizedScopeEmpty ==
  ( /\ handled
    /\ route # "auth/login"
    /\ userProfile.synthesized )
  => /\ response.scope = {}
     /\ response.query = {}
     /\ response.data = {}

\* The students whose records a caller with a profile record may act on
\* when paying a fee: the student itself, a parent's children
payerScope(c) ==
  CASE c.userRole = "student" -> {c.userProfile.id}
    [] c.userRole = "parent" -> ChildrenIds(c.userProfile.id)
    [] OTHER -> {}

\* C13: a caller with an allowed role who names an existing record outside
\* the caller's scope (a fee in POST /api/fees/payment, a notification in
\* PATCH /api/notifications/:id/read or PATCH
\* /api/students/notifications/:id/read) is answered 403, not 404.
C13_OutOfScopeIsForbidden ==
  \A p \in Slots :
    LET c == calls[p]
    IN ( /\ c.pc = "done"
         /\ c.sentBy = "handler"
         /\ c.userProfile.table = c.userRole
         /\ \/ /\ c.route = "fees/payment"
               /\ c.feeId \in FeeIds
               /\ fees[c.feeId].studentId \notin payerScope(c)
            \/ /\ c.route \in {"notifications/read", "students/notifications/read"}
               /\ c.id \in NotificationIds
               /\ ~addressedTo(notifications[c.id], c.userRole, c.userProfile) )
       => c.response.status = 403

\* The sum of the amounts of the payment records created for a fee
RECURSIVE paidBy(_, _)
paidBy(records, f) ==
  IF records = <<>>
  THEN 0
  ELSE (IF Head(records).feeId = f THEN Head(records).amount ELSE 0)
       + paidBy(Tail(records), f)

\* C15: once the payment calls in flight have ended, every fee's paidAmount
\* is its initial paidAmount plus the amounts of all payment records
\* created for it.
C15_NoLostPayment ==
  (\A p \in Slots : calls[p].pc \in {"idle", "done"})
  => \A f \in FeeIds :
       fees[f].paidAmount
         = (CHOOSE r \in FeeTable : r.id = f).paidAmount + paidBy(payments, f)

\* What a request with header h has attached once getUserProfile passed
\* it on, when it is the only request served
AloneContexts(mwv, h) ==
  UNION { { [userId |-> a.userId, userRole |-> r.userRole,
             userProfile |-> r.userProfile] :
              r \in { x \in profileOutcomes(mwv, a.userId, a.userRole, a.userEmail) :
                        x.status = 0 } } :
          a \in { x \in authOutcomes(mwv, h) : x.status = 0 } }

\* The responses GET /api/fees/history can give a request with header h
\* and parameter sid when it is the only request served
AloneFeesHistory(mwv, h, sid) ==
  { RespondError(a.status, a.error) : a \in { x \in authOutcomes(mwv, h) : x.status # 0 } }
  \cup UNION { { RespondError(r.status, r.error) :
                   r \in { x \in profileOutcomes(mwv, a.userId, a.userRole, a.userEmail) :
                             x.status # 0 } } :
               a \in { x \in authOutcomes(mwv, h) : x.status = 0 } }
  \cup { Respond(feesHistory(c.userRole, c.userProfile, sid)) : c \in AloneContexts(mwv, h) }

\* The context of the request in a slot
contextOf(c) ==
  [userId |-> c.userId, userRole |-> c.userRole, userProfile |-> c.userProfile]

\* C19: of two requests in flight, each carries, after every stage, the
\* userId, role and profile its own header gives when served alone, and a
\* scope-computing route answers it with the scope and records of its own
\* context: the other request's stages change none of them.
C19_RequestIsolation ==
  \A p \in Slots :
    LET c == calls[p]
    IN /\ c.pc = "getUserProfile"
          => \E a \in authOutcomes(mw, c.header) :
               /\ a.status = 0
               /\ a.userId = c.userId
               /\ a.userRole = c.userRole
               /\ a.userEmail = c.userEmail
       /\ ( \/ c.pc \in {"requireRole", "handler", "paymentCreate", "paymentUpdate"}
            \/ (c.pc = "done" /\ c.sentBy \in {"requireRole", "handler"}) )
          => contextOf(c) \in AloneContexts(mw, c.header)
       /\ (c.pc = "done" /\ c.route = "fees/history")
          => c.response \in AloneFeesHistory(mw, c.header, c.studentId)
       /\ (c.pc = "done" /\ c.route = "fees/history" /\ c.sentBy = "handler"
             /\ ~derefThrows(c.userRole, c.userProfile, {"student", "parent"}))
          => c.response.scope
               = (IF feesScope(c.userRole, c.userProfile, c.studentId) = {} THEN {}
                  ELSE feesScope(c.userRole, c.userProfile, c.studentId))

\* The request served on its own gets one of the answers computed for a
\* request alone (collaborators reachable)
C19_AloneIsSolo ==
  (pc = "done" /\ route = "fees/history" /\ outage = None)
  => response \in AloneFeesHistory(mw, header, studentId)

\* Two requests of different callers are in flight between stages
C19_Witness ==
  /\ calls[1].pc = "getUserProfile"
  /\ calls[1].userId = "P1"
  /\ calls[2].pc = "handler"
  /\ calls[2].userId = "S1"
  /\ calls[2].userRole = "student"
  /\ calls[2].route = "fees/history"

\* The routes of the side-by-side requests that compute targetStudentIds
ConcScoped == {"fees/history", "attendance/summary"}

\* The read-only half of C20: a request that only computes a scope and
\* reads leaves every fee, payment, notification and attendance record as
\* it was
C20_ScopeComputationReadOnly ==
  [][ \A p \in Slots :
        ( /\ calls[p].route \in ConcScoped
          /\ calls[p].pc = "handler"
          /\ calls'[p].pc = "done" )
        => UNCHANGED <<fees, payments, notifications, attendance>> ]_vars

\* C27: every element of a computed student scope is an internal
\* Student.id, never the human-readable StudentId of an enrollment; this
\* holds for the teacher scope built from class enrollments on every route.
C27_ScopeHoldsInternalIds ==
  ( /\ handled
    /\ userRole = "teacher"
    /\ userProfile.table = "teacher"
    /\ route \in ScopedRoutes
    /\ response.status = 200 )
  => response.scope \subseteq AllStudentIds

\* The same for GET /api/exams/results alone, whose teacher branch maps
\* each enrollment to its student record's id
C27_ExamResultsInternalIds ==
  ( /\ handled
    /\ userRole = "teacher"
    /\ userProfile.table = "teacher"
    /\ route = "exams/results"
    /\ response.status = 200 )
  => response.scope \subseteq AllStudentIds

\* The response of POST /login to a rejected credential
LoginRejected ==
  [NoResponse EXCEPT !.status = 401, !.error = "Invalid email or password"]

\* The response of POST /login when the provider call fails
LoginFailed == [NoResponse EXCEPT !.status = 500, !.error = "Login failed"]

\* C25: POST /login issues a token only after the user was found by e-mail
\* and the password was verified for that user; an unknown user and a wrong
\* password get the same 401 with the same body and no token.
C25_LoginTokenOnlyAfterVerification ==
  (pc = "done" /\ route = "auth/login")
  => /\ response.token # NoToken
          => /\ usersByEmail(email) # {}
             /\ password = "right"
             /\ response.status = 200
             /\ \E u \in usersByEmail(email) : response.token = jwtPayload(u)
     /\ ( /\ email # None
          /\ password # None
          /\ (usersByEmail(email) = {} \/ password # "right") )
          => response \in {LoginRejected, LoginFailed}

\* A wrong password for a known user was answered like an unknown user
C25_Witness ==
  /\ pc = "done"
  /\ route = "auth/login"
  /\ usersByEmail(email) # {}
  /\ password = "wrong"
  /\ response = LoginRejected

\* An unknown e-mail was answered the same way
C25_WitnessUnknown ==
  /\ pc = "done"
  /\ route = "auth/login"
  /\ email = "nobody@x"
  /\ password = "right"
  /\ response = LoginRejected

\* The classes a caller's role gives access to: the class of the student's
\* current enrollment, the current classes of a parent's children, the
\* classes a teacher supervises
RoleClassIds(role, profile) ==
  CASE role = "student" ->
         { e.classId : e \in { k \in EnrollmentTable :
             k.leftAt = None /\ k.studentId = profile.StudentId } }
    [] role = "parent" ->
         { e.classId : e \in { k \in EnrollmentTable :
             /\ k.leftAt = None
             /\ \E s \in StudentTable :
                  s.id \in ChildrenIds(profile.id) /\ s.StudentId = k.studentId } }
    [] role = "teacher" ->
         { c.id : c \in { k \in ClassTable : k.supervisorId = profile.id } }
    [] OTHER -> {}

\* C26: on GET /api/exams/upcoming the classes whose exams are returned to
\* a student, parent or teacher are a subset of the caller's role-derived
\* class set, and a classId parameter outside that set is rejected.
C26_UpcomingWithinRoleClasses ==
  ( /\ handled
    /\ route = "exams/upcoming"
    /\ userRole \in {"student", "parent", "teacher"}
    /\ userProfile.table = userRole )
  => /\ response.status = 200
          => response.data \subseteq RoleClassIds(userRole, userProfile)
     /\ (classId # None /\ parseInt(classId) \notin RoleClassIds(userRole, userProfile))
          => response.status \in {403, 404}

\* Without a classId parameter the exams returned are those of the
\* role-derived classes
C26_UpcomingWithoutParameter ==
  ( /\ handled
    /\ route = "exams/upcoming"
    /\ userRole \in {"student", "parent", "teacher"}
    /\ userProfile.table = userRole
    /\ classId = None
    /\ response.status = 200 )
  => response.data = RoleClassIds(userRole, userProfile)

\* The error messages that are literals of the source
FixedErrorMessages ==
  {"Access denied to this student", "Access denied", "Authentication required",
   "Authorization header required", "Email and password are required",
   "Failed to get attendance records", "Failed to get attendance report",
   "Failed to get attendance summary", "Failed to get classes",
   "Failed to get exam results", "Failed to get fee history",
   "Failed to get pending fees", "Failed to get report card",
   "Failed to get upcoming exams", "Failed to get user profile",
   "Failed to verify user account. Please contact administrator.",
   "Insufficient permissions", "Internal server error",
   "Invalid authentication token", "Invalid email or password", "Invalid token",
   "Invalid token. Please sign in again.", "Invalid user role", "Login failed",
   "Student ID is required for parents", "Student ID is required",
   "Student not found", "Token expired. Please sign in again.",
   "Unauthorized access", "User ID not found",
   "User authentication required", "User not found",
   "User not found in database. Please contact administrator to add your account.",
   "User profile not found"}

\* C21: every failure response body consists only of a fixed,
\* data-independent error message: no internal id, no other user's name, no
\* exception message and no query details, in any environment.
C21_FailureBodyIsFixed ==
  (pc = "done" /\ response.status >= 400)
  => /\ response.error \in FixedErrorMessages
     /\ response.scope = {}
     /\ response.query = {}
     /\ response.data = {}
     /\ response.token = NoToken

\* The failures answered by the middleware chain and the route handlers
\* themselves carry fixed messages
C21_RouteFailuresAreFixed ==
  (pc = "done" /\ response.status >= 400 /\ sentBy # "errorHandler")
  => /\ response.error \in FixedErrorMessages
     /\ response.scope = {}
     /\ response.query = {}
     /\ response.data = {}
     /\ response.token = NoToken


\* The request in slot p is answered by its route handler in this step
HandlerAnswers(p) ==
  /\ calls[p].pc = "handler"
  /\ calls'[p].pc = "done"
  /\ calls'[p].sentBy = "handler"

\* The records this step adds to the Attendance table
newAttendance ==
  { attendance'[i] : i \in (Len(attendance) + 1)..Len(attendance') }

\* The teacher supervises the class / teaches the lesson
supervises(t, k) == \E c \in ClassTable : c.id = k /\ c.supervisorId = t

teaches(t, lesson) == \E l \in LessonTable : l.id = lesson /\ l.teacherId = t

\* C22: every attendance record written by a teacher (POST
\* /api/teachers/mark-attendance, POST /api/attendance/mark) belongs to a
\* class the teacher supervises or to a lesson the teacher teaches; a
\* request for any other class or lesson is rejected 403 and writes nothing.
C22_TeacherWritesOwnClasses ==
  [][ \A p \in Slots :
        LET c == calls[p]
            t == c.userProfile.id
            k == IF c.route = "attendance/mark" THEN parseInt(c.classId) ELSE c.classId
        IN ( /\ HandlerAnswers(p)
             /\ c.route \in {"teachers/mark-attendance", "attendance/mark"}
             /\ c.userRole = "teacher"
             /\ c.userProfile.table = "teacher" )
           => /\ \A r \in newAttendance :
                   supervises(t, r.classId) \/ teaches(t, r.lessonId)
              /\ ~(supervises(t, k) \/ teaches(t, c.lessonId))
                   => /\ calls'[p].response.status = 403
                      /\ attendance' = attendance ]_vars

\* A request naming a lesson of another teacher and a class the caller
\* does not supervise is rejected by POST /api/teachers/mark-attendance
C22_ForeignLessonAndClassRejected ==
  \A p \in Slots :
    ( /\ calls[p].pc = "done"
      /\ calls[p].sentBy = "handler"
      /\ calls[p].route = "teachers/mark-attendance"
      /\ calls[p].userProfile.table = "teacher"
      /\ calls[p].lessonId # 0
      /\ ~teaches(calls[p].userProfile.id, calls[p].lessonId)
      /\ ~supervises(calls[p].userProfile.id, calls[p].classId) )
    => calls[p].response.status = 403

\* The students whose fees a caller may pay: the caller's own record for a
\* student, the caller's children for a parent
callerScope(c) ==
  CASE c.userRole = "student" /\ c.userProfile.table = "student" -> {c.userProfile.id}
    [] c.userRole = "parent" /\ c.userProfile.table = "parent" ->
         ChildrenIds(c.userProfile.id)
    [] OTHER -> {}

\* C23: POST /api/fees/payment creates a payment record and changes a fee
\* only when the fee's studentId is in the caller's scope; for any other
\* fee id no payment is created and no fee is changed.
C23_PaymentOnlyInScope ==
  [][ (payments' # payments \/ fees' # fees)
      => \A p \in Slots :
           calls'[p] # calls[p]
           => fees[calls[p].feeId].studentId \in callerScope(calls[p]) ]_vars

\* For callers whose profile is a record of their role's table the payment
\* is made only within the scope
C23_RecordedCallerInScope ==
  [][ (payments' # payments \/ fees' # fees)
      => \A p \in Slots :
           (calls'[p] # calls[p] /\ calls[p].userProfile.table = calls[p].userRole)
           => fees[calls[p].feeId].studentId \in callerScope(calls[p]) ]_vars

\* The (studentId, classId, date) keys named by the requests of a set of routes
keysOf(routes) ==
  { <<c.studentId, parseInt(c.classId), c.date>> :
      c \in { x \in StoreRequests : x.route \in routes } }

\* C24: after any sequence of POST /api/admin/attendance/mark calls,
\* concurrent ones included, there is at most one attendance record for each
\* (studentId, classId, date).  Stated for the keys that only that route
\* writes.
C24_OneRecordPerKey ==
  \A i, j \in 1..Len(attendance) :
    ( /\ <<attendance[i].studentId, attendance[i].classId, attendance[i].date>>
           \in keysOf({"admin/attendance/mark"}) \ keysOf({"attendance/mark"})
      /\ attendance[i].studentId = attendance[j].studentId
      /\ attendance[i].classId = attendance[j].classId
      /\ attendance[i].date = attendance[j].date )
    => i = j

\* A mark that finds the record of an earlier mark updates its status
C24_RepeatedMarkUpdates ==
  [][ \A p \in Slots :
        ( /\ calls[p].pc = "adminMarkWrite"
          /\ calls'[p].pc = "done"
          /\ calls[p].existingAttendance # 0 )
        => /\ Len(attendance') = Len(attendance)
           /\ attendance'[calls[p].existingAttendance].status = calls[p].status ]_vars

\* C28: POST /api/fees/payment is all-or-nothing: answered 500, neither a
\* payment record has been created nor the fee changed; answered success,
\* the payment record exists and the fee reflects it.  Stated for a request
\* served on its own.
C28_PaymentAllOrNothing ==
  \A p \in Slots :
    LET c == calls[p]
    IN ( /\ started = 1
         /\ c.pc = "done"
         /\ c.sentBy = "handler"
         /\ c.route = "fees/payment" )
       => /\ c.response.status = 500
               => /\ payments = <<>>
                  /\ \A f \in FeeIds : fees[f] = (CHOOSE r \in FeeTable : r.id = f)
          /\ c.response.status = 200
               => /\ payments = <<[feeId |-> c.feeId, amount |-> c.amount]>>
                  /\ fees[c.feeId].paidAmount =
                       (CHOOSE r \in FeeTable : r.id = c.feeId).paidAmount + c.amount

\* A successful payment leaves both the record and the fee written
C28_SuccessWritesBoth ==
  \A p \in Slots :
    LET c == calls[p]
    IN ( /\ started = 1
         /\ c.pc = "done"
         /\ c.sentBy = "handler"
         /\ c.route = "fees/payment"
         /\ c.response.status = 200 )
       => /\ payments = <<[feeId |-> c.feeId, amount |-> c.amount]>>
          /\ fees[c.feeId].paidAmount =
               (CHOOSE r \in FeeTable : r.id = c.feeId).paidAmount + c.amount

\* C29: after PATCH /api/notifications/read-all succeeded for a caller, GET
\* /api/notifications/unread-count returns 0 for that caller (no
\* notification is created in between): read-all marks every notification
\* that unread-count counts, class-wide ones included.
C29_ReadAllThenCountIsZero ==
  [][ \A p, q \in Slots :
        ( /\ calls[p].pc = "done"
          /\ calls[p].route = "notifications/read-all"
          /\ calls[p].response.status = 200
          /\ calls[q].route = "notifications/unread-count"
          /\ HandlerAnswers(q)
          /\ calls'[q].response.status = 200
          /\ contextOf(calls[q]) = contextOf(calls[p]) )
        => calls'[q].response.data = {} ]_vars

\* The notifications read-all leaves unread for its caller are none of
\* those addressed to the caller or the caller's role
C29_ReadAllMarksAddressed ==
  [][ \A p, q \in Slots :
        ( /\ calls[p].pc = "done"
          /\ calls[p].route = "notifications/read-all"
          /\ calls[p].response.status = 200
          /\ calls[q].route = "notifications/unread-count"
          /\ HandlerAnswers(q)
          /\ calls'[q].response.status = 200
          /\ contextOf(calls[q]) = contextOf(calls[p]) )
        => \A n \in calls'[q].response.data :
             ~addressedTo(notifications[n], calls[q].userRole, calls[q].userProfile) ]_vars

\* The unread notifications GET /api/notifications/unread-count counts for
\* the student with profile record s
unreadOf(s, table) ==
  { n \in DOMAIN table :
      /\ ~table[n].isRead
      /\ \E e \in currentEnrollments(s.StudentId) :
           countedFor(table[n], "student", ProfileOf("student", s), e) }

\* C30: marking a notification as read by caller A (PATCH
\* /api/notifications/:id/read, PATCH /api/students/notifications/:id/read)
\* leaves the notifications and unread count seen by every other caller B
\* unchanged, also for a notification addressed to a role A and B share.
C30_ReadByOneUnseenByOthers ==
  [][ \A p \in Slots :
        ( /\ HandlerAnswers(p)
          /\ calls[p].route \in {"notifications/read", "students/notifications/read"}
          /\ calls[p].userProfile.table = "student" )
        => \A s \in StudentTable :
             s.id # calls[p].userProfile.id
             => unreadOf(s, notifications') = unreadOf(s, notifications) ]_vars

\* Marking a notification addressed to the caller alone changes no other
\* student's unread notifications
C30_OwnNotificationUnseenByOthers ==
  [][ \A p \in Slots :
        ( /\ HandlerAnswers(p)
          /\ calls[p].route \in {"notifications/read", "students/notifications/read"}
          /\ calls[p].userProfile.table = "student"
          /\ calls[p].id \in NotificationIds
          /\ notifications[calls[p].id].targetRole = None )
        => \A s \in StudentTable :
             s.id # calls[p].userProfile.id
             => unreadOf(s, notifications') = unreadOf(s, notifications) ]_vars

====
